---- MODULE Spec2Model ----
(***************************************************************************)
(* A model of the alignment and matching engine of the ILI pipeline        *)
(* inspector: reference-point matching, piecewise-linear distance          *)
(* correction, the reduced-matrix greedy assignment ("hungarianAlgorithm"),*)
(* pairwise anomaly matching and chaining across runs.                     *)
(*                                                                         *)
(* Conventions.  Arrays are sequences indexed from 1 (the code indexes    *)
(* from 0); the code's "-1" (no column, no index) is kept as -1.  Feet are *)
(* integers; a corrected distance is an exact fraction [n, d] (d > 0), so  *)
(* that the division of the interpolation is not rounded.  Similarities    *)
(* are fixed-point numbers: components in thousandths, the weighted total  *)
(* and the assignment costs in units of 1/100000.                          *)
(***************************************************************************)
EXTENDS Integers, Sequences, FiniteSets, TLC

VARIABLES
    pc,           \* position of the operation sequence under check
    costMatrix,   \* hungarianAlgorithm: its argument
    assignment,   \* hungarianAlgorithm: its result
    run1Refs,     \* matchReferencePoints: reference points of the earlier run
    run2Refs,     \* matchReferencePoints: reference points of the later run
    anomalies,    \* applyDistanceCorrection: the later run's anomalies
    matched,      \* MatchedReference[] returned by matchReferencePoints
    zones,        \* AlignmentZone[] returned by createAlignmentZones
    corrected,    \* NormalizedAnomaly[] returned by applyDistanceCorrection
    runs,         \* runPipeline / matchAcrossRuns: the runs, oldest first
    refPoints,    \* runPipeline: reference points per run
    correctedRuns,\* runPipeline: corrected runs, run 0 first
    loopI,        \* runPipeline: the alignment loop's i (0-based, as in the code)
    match12,      \* matchAcrossRuns: matchAnomalies(runs[0], runs[1])
    match23,      \* matchAcrossRuns: matchAnomalies(runs[1], runs[2]) or null
    allMatches,   \* matchAcrossRuns: the chains returned
    chainAnomalies,  \* calculateGrowthRates / classifyPriority: a chain's anomalies
    chainRunIndices, \* calculateGrowthRates: the run index of each of them
    years,        \* calculateGrowthRates: the inspection year of each run
    growth,       \* GrowthRate returned by calculateGrowthRates
    priority,     \* PriorityClassification returned by classifyPriority
    dirtyRun,     \* cleanData: the normalized run it is given
    cleanedOnce,  \* cleanData(dirtyRun): anomalies and report
    cleanedTwice, \* cleanData applied to its own output
    rawPair,      \* normalizeAnomalies: two rows of an inspection file
    breakdown,    \* SimilarityBreakdown returned by calculateSimilarity
    replacements, \* result of detectPipeReplacements
    rawRuns,      \* runPipeline: the normalized runs, before cleaning
    store         \* usePipelineStore: the fields runPipeline writes

vars == <<pc, costMatrix, assignment, run1Refs, run2Refs, anomalies, matched,
          zones, corrected, runs, refPoints, correctedRuns, loopI, match12,
          match23, allMatches, chainAnomalies, chainRunIndices, years, growth,
          priority, dirtyRun, cleanedOnce, cleanedTwice, rawPair, breakdown,
          replacements, rawRuns, store>>

hungarianVars == <<costMatrix, assignment>>
alignVars == <<run1Refs, run2Refs, anomalies, matched, zones, corrected>>
pipelineVars == <<refPoints, correctedRuns, loopI>>
matchVars == <<match12, match23, allMatches>>
analysisVars == <<chainAnomalies, chainRunIndices, years, growth, priority>>
cleanVars == <<dirtyRun, cleanedOnce, cleanedTwice>>
simVars == <<rawPair, breakdown>>
replVars == <<replacements>>
storeVars == <<rawRuns, store>>
sideVars == <<analysisVars, cleanVars, simVars, replVars>>

----------------------------------------------------------------------------
(* Bounds of the model. *)

\* hungarianAlgorithm is checked on matrices of up to MaxDim x MaxDim
MaxDim == 2
\* ... with integer costs 0..MaxCost
MaxCost == 2
\* at most MaxRefs reference points per run
MaxRefs == 3
\* matchAcrossRuns is given at most MaxRuns runs
MaxRuns == 3
\* ... holding at most MaxAnomalies anomalies between them
MaxAnomalies == 4

----------------------------------------------------------------------------
(* Helpers. *)

Range(s) == {s[i] : i \in DOMAIN s}

MinOf(S) == CHOOSE x \in S : \A y \in S : x <= y

MaxOf(S) == CHOOSE x \in S : \A y \in S : x >= y

Abs(x) == IF x < 0 THEN -x ELSE x

\* null, for a result that was not computed (match23 without a third run)
NullMatch == [isNull |-> TRUE]

IsNull(m) == "isNull" \in DOMAIN m

RECURSIVE SumOver(_, _)
SumOver(f, S) ==
    IF S = {} THEN 0
    ELSE LET x == CHOOSE y \in S : TRUE IN f[x] + SumOver(f, S \ {x})

----------------------------------------------------------------------------
(* pipelineStore.ts: the store fields that runPipeline writes, as created. *)

initialStore ==
    [status |-> "idle",
     progress |-> 0,
     cleaningReports |-> << >>,
     alignmentZones |-> << >>,
     odometerDrift |-> << >>,
     matches |-> << >>,
     alignedAnomalies |-> << >>]

----------------------------------------------------------------------------
(* Each specification below exercises one part of the program; the         *)
(* variables of the other parts rest at these values.                      *)

IdleHungarian == costMatrix = << >> /\ assignment = << >>

IdleAlign ==
    /\ run1Refs = << >> /\ run2Refs = << >> /\ anomalies = << >>
    /\ matched = << >> /\ zones = << >> /\ corrected = << >>

IdlePipeline ==
    runs = << >> /\ refPoints = << >> /\ correctedRuns = << >> /\ loopI = 0

IdleMatch == match12 = NullMatch /\ match23 = NullMatch /\ allMatches = << >>

IdleAnalysis ==
    /\ chainAnomalies = << >> /\ chainRunIndices = << >> /\ years = << >>
    /\ growth = NullMatch /\ priority = NullMatch

IdleClean == dirtyRun = << >> /\ cleanedOnce = NullMatch /\ cleanedTwice = NullMatch

IdleSim == rawPair = << >> /\ breakdown = NullMatch

IdleRepl == replacements = NullMatch

IdleStore == rawRuns = << >> /\ store = initialStore

IdleSide == IdleAnalysis /\ IdleClean /\ IdleSim /\ IdleRepl

coreVars == <<hungarianVars, alignVars, runs, pipelineVars, matchVars>>

IdleCore == IdleHungarian /\ IdleAlign /\ IdlePipeline /\ IdleMatch

----------------------------------------------------------------------------
(* hungarian.ts: hungarianAlgorithm.                                       *)

\* lines 13-20: pad to a square matrix with dummy entries 0
PadSquare(cm, n, m) ==
    LET size == IF n > m THEN n ELSE m
    IN [i \in 1..size |-> [j \in 1..size |->
            IF i <= n /\ j <= m THEN cm[i][j] ELSE 0]]

\* lines 22-28: subtract each row's minimum
SubtractRowMins(matrix) ==
    [i \in DOMAIN matrix |->
        LET rowMin == MinOf(Range(matrix[i]))
        IN [j \in DOMAIN matrix[i] |-> matrix[i][j] - rowMin]]

\* lines 30-39: subtract each column's minimum
SubtractColMins(matrix) ==
    [i \in DOMAIN matrix |-> [j \in DOMAIN matrix[i] |->
        matrix[i][j] - MinOf({matrix[k][j] : k \in DOMAIN matrix})]]

\* lines 51-60 with the usedCols test dropped: the cheapest column of row i,
\* taken or not
BestColumnIgnoringUsed(matrix, i, m, usedCols) ==
    LET least == MinOf({matrix[i][j] : j \in 1..m})
    IN MinOf({j \in 1..m : matrix[i][j] = least})

\* lines 51-60: the first cheapest column of row i among the unused ones,
\* -1 when every column is used
BestColumn(matrix, i, m, usedCols) ==
    LET free == (1..m) \ usedCols
    IN IF free = {} THEN -1
       ELSE LET least == MinOf({matrix[i][j] : j \in free})
            IN MinOf({j \in free : matrix[i][j] = least})

\* lines 48-66: rows i..n of one pass; st = [assignment, usedCols]
RECURSIVE GreedyRows(_, _, _, _, _)
GreedyRows(matrix, n, m, i, st) ==
    IF i > n THEN st
    ELSE IF st.assignment[i] # -1
         THEN GreedyRows(matrix, n, m, i + 1, st)
         ELSE LET bestJ == BestColumn(matrix, i, m, st.usedCols)
              IN IF bestJ >= 1
                 THEN GreedyRows(matrix, n, m, i + 1,
                        [assignment |-> [st.assignment EXCEPT ![i] = bestJ],
                         usedCols |-> st.usedCols \cup {bestJ}])
                 ELSE GreedyRows(matrix, n, m, i + 1, st)

\* line 47: for (pass = 0; pass < 3; pass++)
RECURSIVE GreedyPasses(_, _, _, _, _)
GreedyPasses(matrix, n, m, pass, st) ==
    IF pass >= 3 THEN st
    ELSE GreedyPasses(matrix, n, m, pass + 1, GreedyRows(matrix, n, m, 1, st))

\* lines 7-70.  The result has one entry per row: its column, or -1.
hungarianAlgorithm(cm) ==
    LET n == Len(cm)
        m == IF n = 0 THEN 0 ELSE Len(cm[1])
    IN IF n = 0 \/ m = 0 THEN << >>
       ELSE LET matrix == SubtractColMins(SubtractRowMins(PadSquare(cm, n, m)))
                st0 == [assignment |-> [i \in 1..n |-> -1], usedCols |-> {}]
            IN GreedyPasses(matrix, n, m, 0, st0).assignment

----------------------------------------------------------------------------
(* Specification of hungarianAlgorithm as a pure function: any cost matrix *)
(* of the bounded shapes, then one call.                                   *)

CostMatrices ==
    UNION {[1..n -> [1..m -> 0..MaxCost]] : n \in 0..MaxDim, m \in 0..MaxDim}

InitHungarian ==
    /\ pc = "hungarian"
    /\ costMatrix \in CostMatrices
    /\ assignment = << >>
    /\ run1Refs = << >> /\ run2Refs = << >> /\ anomalies = << >>
    /\ matched = << >> /\ zones = << >> /\ corrected = << >>
    /\ runs = << >> /\ refPoints = << >> /\ correctedRuns = << >> /\ loopI = 0
    /\ match12 = NullMatch /\ match23 = NullMatch /\ allMatches = << >>
    /\ IdleSide /\ IdleStore

CallHungarian ==
    /\ pc = "hungarian"
    /\ assignment' = hungarianAlgorithm(costMatrix)
    /\ pc' = "hungarian_done"
    /\ UNCHANGED <<costMatrix, alignVars, runs, pipelineVars, matchVars>>
    /\ UNCHANGED <<sideVars, storeVars>>

SpecHungarian == InitHungarian /\ [][CallHungarian]_vars

----------------------------------------------------------------------------
(* C2 *)

\* the rows of an n x m matrix that an assignment gives a column
AssignedRows(a) == {i \in DOMAIN a : a[i] # -1}

\* one-to-one: no column taken twice, and as many rows placed as fit
IsOneToOne(a, n, m) ==
    /\ DOMAIN a = 1..n
    /\ \A i \in 1..n : a[i] = -1 \/ a[i] \in 1..m
    /\ \A i, k \in AssignedRows(a) : i # k => a[i] # a[k]
    /\ Cardinality(AssignedRows(a)) = (IF n < m THEN n ELSE m)

TotalCost(cm, a) == SumOver([i \in AssignedRows(a) |-> cm[i][a[i]]], AssignedRows(a))

OneToOneAssignments(n, m) ==
    {a \in [1..n -> (1..m) \cup {-1}] : IsOneToOne(a, n, m)}

IsOptimalAssignment(cm, a) ==
    LET n == Len(cm)
        m == IF n = 0 THEN 0 ELSE Len(cm[1])
    IN IF n = 0 \/ m = 0 THEN a = << >>
       ELSE /\ IsOneToOne(a, n, m)
            /\ \A b \in OneToOneAssignments(n, m) : TotalCost(cm, a) <= TotalCost(cm, b)

\* C2: hungarianAlgorithm returns, for every cost matrix, a one-to-one
\* assignment of rows to columns of minimal total cost.
C2_HungarianOptimal ==
    pc = "hungarian_done" => IsOptimalAssignment(costMatrix, assignment)


----------------------------------------------------------------------------
(* Exact fractions [n, d], d > 0, for corrected distances and span ratios. *)

RECURSIVE GCD(_, _)
GCD(a, b) == IF b = 0 THEN a ELSE GCD(b, a % b)

\* n/d in lowest terms with a positive denominator (d # 0)
Frac(n, d) ==
    LET g == GCD(Abs(n), Abs(d))
        s == IF d < 0 THEN -1 ELSE 1
    IN [n |-> s * (n \div g), d |-> s * (d \div g)]

Whole(x) == [n |-> x, d |-> 1]

FracAdd(x, y) == Frac(x.n * y.d + y.n * x.d, x.d * y.d)

FracLess(x, y) == x.n * y.d < y.n * x.d

FracAbsDiff(x, y) == Frac(Abs(x.n * y.d - y.n * x.d), x.d * y.d)

----------------------------------------------------------------------------
(* referenceMatching.ts: extractReferencePoints, matchReferencePoints.     *)

\* Array.prototype.sort with a numeric comparator is stable: insertion of
\* each element after the elements whose key is not larger
RECURSIVE InsertIndex(_, _, _)
InsertIndex(perm, x, keys) ==
    IF perm = << >> THEN <<x>>
    ELSE IF keys[x] < keys[perm[Len(perm)]]
         THEN Append(InsertIndex(SubSeq(perm, 1, Len(perm) - 1), x, keys),
                     perm[Len(perm)])
         ELSE Append(perm, x)

RECURSIVE SortPerm(_, _)
SortPerm(keys, k) ==
    IF k = 0 THEN << >> ELSE InsertIndex(SortPerm(keys, k - 1), k, keys)

StableSortBy(s, Key(_)) ==
    LET keys == [i \in 1..Len(s) |-> Key(s[i])]
        perm == SortPerm(keys, Len(s))
    IN [k \in 1..Len(s) |-> s[perm[k]]]

\* Array.prototype.filter, as the indices kept
RECURSIVE TrueIndices(_, _)
TrueIndices(flags, i) ==
    IF i > Len(flags) THEN << >>
    ELSE IF flags[i] THEN <<i>> \o TrueIndices(flags, i + 1)
         ELSE TrueIndices(flags, i + 1)

SelectIndices(s, Test(_)) == TrueIndices([i \in 1..Len(s) |-> Test(s[i])], 1)

RefDistance(r) == r.distance

\* lines 6-21: the run's reference points, sorted by distance
extractReferencePoints(run, runIndex) ==
    LET IsRef(a) == a.is_reference_point
        idx == SelectIndices(run, IsRef)
        refs == [k \in 1..Len(idx) |->
                    [id |-> run[idx[k]].id,
                     distance |-> run[idx[k]].distance,
                     joint_number |-> run[idx[k]].joint_number,
                     run_index |-> runIndex]]
    IN StableSortBy(refs, RefDistance)

\* line 30: default distanceTolerance (feet)
DistanceTolerance == 500

\* lines 49-54: distance difference plus the joint-number penalty
RefScore(ref1, ref2) ==
    LET distDiff == Abs(ref1.distance - ref2.distance)
    IN IF ref1.joint_number > 0 /\ ref2.joint_number > 0
       THEN distDiff + Abs(ref1.joint_number - ref2.joint_number) * 100
       ELSE distDiff

\* lines 39-45 with the usedRun2Indices test dropped
RefCandidatesIgnoringUsed(ref1, run2Refs_, used, distanceTolerance) ==
    {j \in 1..Len(run2Refs_) :
        Abs(ref1.distance - run2Refs_[j].distance) <= distanceTolerance}

\* lines 39-45 with the tolerance exclusive (distDiff >= distanceTolerance
\* skipped)
RefCandidatesBelowTolerance(ref1, run2Refs_, used, distanceTolerance) ==
    {j \in 1..Len(run2Refs_) :
        /\ j \notin used
        /\ Abs(ref1.distance - run2Refs_[j].distance) < distanceTolerance}

\* lines 39-45: the indices of run 2 still free and within the tolerance
RefCandidates(ref1, run2Refs_, used, distanceTolerance) ==
    {j \in 1..Len(run2Refs_) :
        /\ j \notin used
        /\ Abs(ref1.distance - run2Refs_[j].distance) <= distanceTolerance}

\* lines 36-60: the first candidate of least score, -1 if there is none
BestRefIndex(ref1, run2Refs_, used, distanceTolerance) ==
    LET cand == RefCandidates(ref1, run2Refs_, used, distanceTolerance)
    IN IF cand = {} THEN -1
       ELSE LET least == MinOf({RefScore(ref1, run2Refs_[j]) : j \in cand})
            IN MinOf({j \in cand : RefScore(ref1, run2Refs_[j]) = least})

\* lines 35-73: the loop over run1Refs from index k on
RECURSIVE MatchRefsFrom(_, _, _, _, _, _)
MatchRefsFrom(run1Refs_, run2Refs_, distanceTolerance, k, acc, used) ==
    IF k > Len(run1Refs_) THEN acc
    ELSE LET ref1 == run1Refs_[k]
             bestIdx == BestRefIndex(ref1, run2Refs_, used, distanceTolerance)
         IN IF bestIdx >= 1
            THEN MatchRefsFrom(run1Refs_, run2Refs_, distanceTolerance, k + 1,
                    Append(acc, [run1 |-> ref1,
                                 run2 |-> run2Refs_[bestIdx],
                                 distance_offset |->
                                     run2Refs_[bestIdx].distance - ref1.distance]),
                    used \cup {bestIdx})
            ELSE MatchRefsFrom(run1Refs_, run2Refs_, distanceTolerance, k + 1,
                               acc, used)

\* lines 27-76
matchReferencePoints(run1Refs_, run2Refs_) ==
    MatchRefsFrom(run1Refs_, run2Refs_, DistanceTolerance, 1, << >>, {})

----------------------------------------------------------------------------
(* distanceCorrection.ts: createAlignmentZones, applyDistanceCorrection.   *)

Run1Distance(mr) == mr.run1.distance

Run2Distance(mr) == mr.run2.distance

\* lines 15-32: the zone between two consecutive matched pairs
MakeZone(startRef, endRef) ==
    LET run1Span == endRef.run1.distance - startRef.run1.distance
        run2Span == endRef.run2.distance - startRef.run2.distance
        spanRatio == IF run1Span > 0 THEN Frac(run2Span, run1Span) ELSE Whole(1)
    IN [start_ref |-> startRef,
        end_ref |-> endRef,
        correction_factor |-> spanRatio,
        \* |spanRatio - 1| > 0.2
        is_pipe_replacement |-> 5 * Abs(spanRatio.n - spanRatio.d) > spanRatio.d]

\* lines 7-35
createAlignmentZones(matchedRefs) ==
    IF Len(matchedRefs) < 2 THEN << >>
    ELSE LET sorted == StableSortBy(matchedRefs, Run1Distance)
         IN [i \in 1..(Len(sorted) - 1) |-> MakeZone(sorted[i], sorted[i + 1])]

\* lines 71-82: the image of raw under the zone's map
ZoneMap(zone, raw) ==
    LET run2Start == zone.start_ref.run2.distance
        run2End == zone.end_ref.run2.distance
        run1Start == zone.start_ref.run1.distance
        run1End == zone.end_ref.run1.distance
        run2Span == run2End - run2Start
    IN IF run2Span > 0
       THEN Frac(run1Start * run2Span + (raw - run2Start) * (run1End - run1Start),
                 run2Span)
       ELSE Whole(run1Start)

\* lines 61-65: zones.find
InZone(zone, raw) ==
    raw >= zone.start_ref.run2.distance /\ raw <= zone.end_ref.run2.distance

\* lines 57-94: the corrected distance of one anomaly
CorrectOne(raw, zones_, firstRef, lastRef) ==
    LET hits == {k \in 1..Len(zones_) : InZone(zones_[k], raw)}
    IN IF hits # {} THEN ZoneMap(zones_[MinOf(hits)], raw)
       ELSE IF raw < firstRef.run2.distance
            THEN Whole(raw + (firstRef.run1.distance - firstRef.run2.distance))
       ELSE IF raw > lastRef.run2.distance
            THEN Whole(raw + (lastRef.run1.distance - lastRef.run2.distance))
       ELSE Whole(raw)

\* applyDistanceCorrection with the early return taken only when nothing
\* was matched: without zones it translates by the first pair's offset
applyDistanceCorrectionTranslating(anomalies_, zones_, matchedRefs) ==
    IF Len(matchedRefs) = 0 THEN anomalies_
    ELSE IF Len(zones_) = 0
    THEN [k \in 1..Len(anomalies_) |->
             [anomalies_[k] EXCEPT !.corrected_distance =
                 Whole(anomalies_[k].distance - matchedRefs[1].distance_offset)]]
    ELSE LET sortedRefs == StableSortBy(matchedRefs, Run2Distance)
             firstRef == sortedRefs[1]
             lastRef == sortedRefs[Len(sortedRefs)]
         IN [k \in 1..Len(anomalies_) |->
                [anomalies_[k] EXCEPT !.corrected_distance =
                    CorrectOne(anomalies_[k].distance, zones_, firstRef, lastRef)]]

\* lines 43-101
applyDistanceCorrection(anomalies_, zones_, matchedRefs) ==
    IF Len(zones_) = 0 \/ Len(matchedRefs) < 2 THEN anomalies_
    ELSE LET sortedRefs == StableSortBy(matchedRefs, Run2Distance)
             firstRef == sortedRefs[1]
             lastRef == sortedRefs[Len(sortedRefs)]
         IN [k \in 1..Len(anomalies_) |->
                [anomalies_[k] EXCEPT !.corrected_distance =
                    CorrectOne(anomalies_[k].distance, zones_, firstRef, lastRef)]]


----------------------------------------------------------------------------
(* Specification of the alignment of one later run onto an earlier one:    *)
(* matchReferencePoints, createAlignmentZones, applyDistanceCorrection, in *)
(* the order runPipeline calls them, on any two reference lists of the     *)
(* bounded shapes.                                                         *)

\* distances (feet) of reference points: closer than, at, and beyond the
\* matching tolerance
RefDists == {0, 50, 100, 600}

\* raw distances (feet) of the later run's anomalies: on, between, before
\* and after the reference positions
RawDists == <<0, 25, 50, 75, 100, 350, 600, 700>>

\* joint numbers of a run: unknown throughout (0), or numbered along the pipe
JointPatterns(len) ==
    {j \in [1..len -> 0..2] :
        \/ \A i \in 1..len : j[i] = 0
        \/ /\ \A i \in 1..len : j[i] > 0
           /\ \A i \in 1..len : \A k \in 1..len : i < k => j[i] <= j[k]}

SortedDistances(len) ==
    {d \in [1..len -> RefDists] :
        \A i \in 1..len : \A k \in 1..len : i < k => d[i] <= d[k]}

\* the reference lists extractReferencePoints can return for run runIndex
RefLists(runIndex) ==
    UNION {{[i \in 1..len |-> [id |-> i, distance |-> d[i],
                               joint_number |-> j[i], run_index |-> runIndex]] :
                d \in SortedDistances(len), j \in JointPatterns(len)} :
           len \in 0..MaxRefs}

\* normalizer.ts line 42: corrected_distance starts as the distance
RawAnomaly(i, dist) ==
    [id |-> i, distance |-> dist, corrected_distance |-> Whole(dist)]

\* the later run: an anomaly at every raw distance, at the first few, or none
AnomalyRuns ==
    {[i \in 1..len |-> RawAnomaly(i, RawDists[i])] : len \in {0, 3, Len(RawDists)}}

InitAlign ==
    /\ pc = "refs"
    /\ run1Refs \in RefLists(0)
    /\ run2Refs \in RefLists(1)
    /\ anomalies = << >> /\ matched = << >> /\ zones = << >> /\ corrected = << >>
    /\ costMatrix = << >> /\ assignment = << >>
    /\ runs = << >> /\ refPoints = << >> /\ correctedRuns = << >> /\ loopI = 0
    /\ match12 = NullMatch /\ match23 = NullMatch /\ allMatches = << >>
    /\ IdleSide /\ IdleStore

CallMatchReferencePoints ==
    /\ pc = "refs"
    /\ matched' = matchReferencePoints(run1Refs, run2Refs)
    /\ pc' = "matched"
    /\ UNCHANGED <<run1Refs, run2Refs, anomalies, zones, corrected,
                   hungarianVars, runs, pipelineVars, matchVars>>
    /\ UNCHANGED <<sideVars, storeVars>>

CallCreateAlignmentZones ==
    /\ pc = "matched"
    /\ zones' = createAlignmentZones(matched)
    /\ pc' = "zoned"
    /\ UNCHANGED <<run1Refs, run2Refs, anomalies, matched, corrected,
                   hungarianVars, runs, pipelineVars, matchVars>>
    /\ UNCHANGED <<sideVars, storeVars>>

CallApplyDistanceCorrection ==
    /\ pc = "zoned"
    /\ \E run \in AnomalyRuns :
          /\ anomalies' = run
          /\ corrected' = applyDistanceCorrection(run, zones, matched)
    /\ pc' = "corrected"
    /\ UNCHANGED <<run1Refs, run2Refs, matched, zones,
                   hungarianVars, runs, pipelineVars, matchVars>>
    /\ UNCHANGED <<sideVars, storeVars>>

NextAlign ==
    \/ CallMatchReferencePoints
    \/ CallCreateAlignmentZones
    \/ CallApplyDistanceCorrection

SpecAlign == InitAlign /\ [][NextAlign]_vars


----------------------------------------------------------------------------
(* C4 *)

\* the later run's references are the earlier run's, each moved by delta
ShiftedBy(refsA, refsB, delta) ==
    /\ Len(refsB) = Len(refsA)
    /\ \A i \in 1..Len(refsA) :
          /\ refsB[i].distance = refsA[i].distance + delta
          /\ refsB[i].joint_number = refsA[i].joint_number

\* every anomaly's corrected distance is its raw distance minus delta
CorrectedByShift(before, after, delta) ==
    /\ Len(after) = Len(before)
    /\ \A k \in 1..Len(before) :
          after[k].corrected_distance = Whole(before[k].distance - delta)

\* C4: if the later run's reference points are the earlier run's uniformly
\* shifted by D (at least two of them, |D| <= 500), every anomaly of the
\* later run gets corrected_distance = raw distance - D.
C4_UniformShiftCorrected ==
    (pc = "corrected" /\ Len(run1Refs) >= 2) =>
        \A delta \in (0 - DistanceTolerance)..DistanceTolerance :
            ShiftedBy(run1Refs, run2Refs, delta) =>
                CorrectedByShift(anomalies, corrected, delta)

----------------------------------------------------------------------------
(* C5 *)

----------------------------------------------------------------------------
(* C8 *)

\* C8: no reference of run A and no reference of run B takes part in two
\* matched pairs, and every pair joins a reference of A to one of B.
C8_ReferenceMatchingInjective ==
    pc # "refs" =>
        /\ \A i \in 1..Len(matched) :
              /\ matched[i].run1 \in Range(run1Refs)
              /\ matched[i].run2 \in Range(run2Refs)
        /\ \A i \in 1..Len(matched) : \A k \in 1..Len(matched) :
              i # k => /\ matched[i].run1.id # matched[k].run1.id
                       /\ matched[i].run2.id # matched[k].run2.id

\* three references of A compete for two of B, all within the tolerance:
\* the third finds both taken
C8_Witness ==
    /\ pc = "matched"
    /\ Len(run1Refs) = 3 /\ Len(run2Refs) = 2
    /\ \A i \in 1..3 : \A j \in 1..2 :
          Abs(run1Refs[i].distance - run2Refs[j].distance) <= DistanceTolerance
    /\ Len(matched) = 2

----------------------------------------------------------------------------
(* C10 *)

\* C10: at every boundary shared by two consecutive zones, both zones' maps
\* give the boundary point the same corrected distance.
C10_ZonesAgreeAtBoundaries ==
    pc \in {"zoned", "corrected"} =>
        \A i \in 1..(Len(zones) - 1) :
            LET boundary == zones[i].end_ref.run2.distance
            IN /\ zones[i + 1].start_ref = zones[i].end_ref
               /\ ZoneMap(zones[i], boundary) = ZoneMap(zones[i + 1], boundary)


----------------------------------------------------------------------------
(* similarity.ts: calculateSimilarity, in fixed point.                     *)

\* 1.0 as a similarity component (thousandths)
Milli == 10 * 100

\* lines 4-9: WEIGHTS, in hundredths; a total is in units of 1/100000
WeightDistance == 40
WeightDimensional == 30
WeightClock == 20
WeightFeatureType == 10

\* 1.0 as a similarity total or an assignment cost
One == 100 * Milli

\* line 12: DISTANCE_TOLERANCE (feet)
DISTANCE_TOLERANCE == 50

\* round(1000 * exp(-k/5)), k = 0..40; 0 from k = 39 on
ExpTable ==
    <<1000, 819, 670, 549, 449, 368, 301, 247, 202, 165, 135, 111, 91, 74, 61,
      50, 41, 33, 27, 22, 18, 15, 12, 10, 8, 7, 6, 5, 4, 3, 2, 2, 2, 1, 1, 1,
      1, 1, 1, 0, 0>>

\* 1000 * exp(-x/5) for a fraction x >= 0: the table at whole x, a straight
\* line between two entries
ExpNegFifths(x) ==
    LET k == x.n \div x.d
    IN IF k + 2 > Len(ExpTable) THEN 0
       ELSE ExpTable[k + 1]
            - ((ExpTable[k + 1] - ExpTable[k + 2]) * (x.n - k * x.d)) \div x.d

\* lines 45-48: exp(-|d1 - d2| / DISTANCE_TOLERANCE)
distanceSimilarity(d1, d2) ==
    LET diff == FracAbsDiff(d1, d2)
    IN ExpNegFifths(Frac(diff.n * 5, diff.d * DISTANCE_TOLERANCE))

\* floor of the square root
RECURSIVE ISqrtBetween(_, _, _)
ISqrtBetween(x, lo, hi) ==
    IF lo >= hi THEN lo
    ELSE LET mid == (lo + hi + 1) \div 2
         IN IF mid * mid <= x THEN ISqrtBetween(x, mid, hi)
            ELSE ISqrtBetween(x, lo, mid - 1)

ISqrt(x) == ISqrtBetween(x, 0, IF x < 40000 THEN x ELSE 40000)

\* lines 53-64: cosine similarity of [depth%, length, width], not below 0
dimensionalSimilarity(a1, a2) ==
    LET dot == a1.depth_percent * a2.depth_percent + a1.length * a2.length
                 + a1.width * a2.width
        sq1 == a1.depth_percent * a1.depth_percent + a1.length * a1.length
                 + a1.width * a1.width
        sq2 == a2.depth_percent * a2.depth_percent + a2.length * a2.length
                 + a2.width * a2.width
    IN IF sq1 = 0 \/ sq2 = 0 THEN 0
       ELSE IF dot <= 0 THEN 0
       ELSE (Milli * dot) \div ISqrt(sq1 * sq2)

\* lines 70-74: 1 - circular difference / 180
clockSimilarity(deg1, deg2) ==
    LET diff == Abs(deg1 - deg2)
        circularDiff == IF diff < 360 - diff THEN diff ELSE 360 - diff
    IN Milli - (Milli * circularDiff) \div 180

\* lines 83-89: the compatible pairs
CompatibleTypes ==
    {<<"external_metal_loss", "metal_loss">>,
     <<"internal_metal_loss", "metal_loss">>,
     <<"external_metal_loss", "internal_metal_loss">>,
     <<"crack", "gouge">>,
     <<"girth_weld", "seam_weld">>}

\* lines 79-98
featureTypeSimilarity(t1, t2) ==
    IF t1 = t2 THEN Milli
    ELSE IF <<t1, t2>> \in CompatibleTypes \/ <<t2, t1>> \in CompatibleTypes
         THEN Milli \div 2
         ELSE 0

\* lines 17-39
calculateSimilarity(a1, a2) ==
    LET distSim == distanceSimilarity(a1.corrected_distance, a2.corrected_distance)
        dimSim == dimensionalSimilarity(a1, a2)
        clockSim == clockSimilarity(a1.clock_degrees, a2.clock_degrees)
        typeSim == featureTypeSimilarity(a1.canonical_type, a2.canonical_type)
    IN [distance |-> distSim,
        dimensional |-> dimSim,
        clock |-> clockSim,
        feature_type |-> typeSim,
        total |-> WeightDistance * distSim + WeightDimensional * dimSim
                    + WeightClock * clockSim + WeightFeatureType * typeSim]

----------------------------------------------------------------------------
(* matcher.ts (part_005): matchAnomalies.                                  *)

\* line 7: DISTANCE_FILTER (feet)
DISTANCE_FILTER == 200
\* line 8: CONFIDENCE_HIGH = 0.7
CONFIDENCE_HIGH == 7 * (One \div 10)
\* line 9: CONFIDENCE_LOW = 0.4
CONFIDENCE_LOW == 4 * (One \div 10)
\* line 36: sim.total > 0.2
CandidateFloor == 2 * (One \div 10)
\* hungarian.ts line 81: LARGE_COST = 1000
LARGE_COST == 1000 * One

\* Array.prototype.indexOf: the first index holding the object (an anomaly's
\* id stands for its identity within its run), -1 if there is none
IndexOf(run, a) ==
    LET at == {k \in 1..Len(run) : run[k] = a}
    IN IF at = {} THEN -1 ELSE MinOf(at)

NonReference(run) ==
    LET NotRef(a) == ~a.is_reference_point
        idx == SelectIndices(run, NotRef)
    IN [k \in 1..Len(idx) |-> run[idx[k]]]

\* lines 28-40: the candidate pairs, as a function of (row, col); a pair that
\* is no candidate has no entry
IsCandidate(r1, r2, i, j) ==
    /\ ~FracLess(Whole(DISTANCE_FILTER),
                 FracAbsDiff(r1[i].corrected_distance, r2[j].corrected_distance))
    /\ calculateSimilarity(r1[i], r2[j]).total > CandidateFloor

Candidates(r1, r2) ==
    {<<i, j>> \in (1..Len(r1)) \X (1..Len(r2)) : IsCandidate(r1, r2, i, j)}

\* hungarian.ts lines 76-92: buildCostMatrix
buildCostMatrix(r1, r2, candidates) ==
    [i \in 1..Len(r1) |-> [j \in 1..Len(r2) |->
        IF <<i, j>> \in candidates
        THEN One - calculateSimilarity(r1[i], r2[j]).total
        ELSE LARGE_COST]]

\* Accepted without the threshold of line 62: every assigned candidate
AcceptedAnyCandidate(r1, r2, candidates, i, j) == <<i, j>> \in candidates

\* lines 61-62: the assigned pair is a candidate of score >= CONFIDENCE_LOW
Accepted(r1, r2, candidates, i, j) ==
    /\ <<i, j>> \in candidates
    /\ calculateSimilarity(r1[i], r2[j]).total >= CONFIDENCE_LOW

\* lines 56-75: the rows i.. of the assignment; acc = the pairs so far
RECURSIVE ExtractPairs(_, _, _, _, _, _, _, _)
ExtractPairs(run1, run2, r1, r2, candidates, assign, i, acc) ==
    IF i > Len(assign) THEN acc
    ELSE LET j == assign[i]
         IN IF j < 1 \/ j > Len(r2)
            THEN ExtractPairs(run1, run2, r1, r2, candidates, assign, i + 1, acc)
            ELSE IF Accepted(r1, r2, candidates, i, j)
                 THEN ExtractPairs(run1, run2, r1, r2, candidates, assign, i + 1,
                        Append(acc, [run1Idx |-> IndexOf(run1, r1[i]),
                                     run2Idx |-> IndexOf(run2, r2[j]),
                                     similarity |-> calculateSimilarity(r1[i], r2[j]),
                                     row |-> i, col |-> j]))
                 ELSE ExtractPairs(run1, run2, r1, r2, candidates, assign, i + 1, acc)

\* lines 78-90: the original indices of the filtered rows not in a pair
Unmatched(run, r, matchedRows) ==
    LET Free(k) == k \notin matchedRows
        idx == SelectIndices([k \in 1..Len(r) |-> k], Free)
    IN [k \in 1..Len(idx) |-> IndexOf(run, r[idx[k]])]

\* lines 77-92: the unmatched rows of both runs, and the result
MatchResult(run1, run2, r1, r2, pairs) ==
    [pairs |-> pairs,
     newAnomalies |->
         Unmatched(run2, r2, {pairs[k].col : k \in 1..Len(pairs)}),
     missingAnomalies |->
         Unmatched(run1, r1, {pairs[k].row : k \in 1..Len(pairs)})]

\* lines 42-75: cost matrix, assignment, accepted pairs
MatchCandidates(run1, run2, r1, r2, candidates) ==
    MatchResult(run1, run2, r1, r2,
        ExtractPairs(run1, run2, r1, r2, candidates,
                     hungarianAlgorithm(buildCostMatrix(r1, r2, candidates)),
                     1, << >>))

\* lines 15-93.  A pair keeps row and col (the filtered indices the code
\* adds to matchedR1 and matchedR2) beside the fields the code returns.
matchAnomalies(run1, run2) ==
    MatchCandidates(run1, run2, NonReference(run1), NonReference(run2),
                    Candidates(NonReference(run1), NonReference(run2)))

----------------------------------------------------------------------------
(* matcher.ts (part_005): matchAcrossRuns.  runs[1] is the code's runs[0]; *)
(* run_indices keep the code's numbers 0, 1, 2.                            *)

ZeroSimilarity ==
    [distance |-> 0, dimensional |-> 0, clock |-> 0, feature_type |-> 0,
     total |-> 0]

\* lines 232-264: buildMatchObject, the fields set from its arguments
buildMatchObject(anoms, runIndices, confidence, status, similarity) ==
    [anomalies |-> anoms,
     run_indices |-> runIndices,
     confidence |-> confidence,
     match_status |-> status,
     similarity_breakdown |-> similarity]

\* lines 135-138 with the comparison against CONFIDENCE_HIGH turned round
PairStatusInverted(confidence) ==
    IF confidence >= CONFIDENCE_HIGH THEN "uncertain" ELSE "matched"

\* lines 135-138
PairStatus(confidence) ==
    IF confidence < CONFIDENCE_HIGH /\ confidence >= CONFIDENCE_LOW
    THEN "uncertain" ELSE "matched"

\* lines 114-119: run2ToRun3Map, as the function from its keys
Run2ToRun3Map(m23) ==
    IF IsNull(m23) THEN << >>
    ELSE LET keys == {m23.pairs[k].run1Idx : k \in 1..Len(m23.pairs)}
         IN [key \in keys |->
                LET last == MaxOf({k \in 1..Len(m23.pairs) :
                                      m23.pairs[k].run1Idx = key})
                IN [run3Idx |-> m23.pairs[last].run2Idx,
                    sim |-> m23.pairs[last].similarity]]

\* lines 131, 162 left out: the entry stays in the map
MapDeleteForgotten(map, key) == map

\* lines 131, 162: run2ToRun3Map.delete
MapDelete(map, key) == [k \in (DOMAIN map) \ {key} |-> map[k]]

\* lines 122-151: the pairs of run 1 - run 2 from the k-th on;
\* st = [map, all]
RECURSIVE ChainPairs(_, _, _, _)
ChainPairs(runs_, pairs, k, st) ==
    IF k > Len(pairs) THEN st
    ELSE LET pair == pairs[k]
             extend == pair.run2Idx \in DOMAIN st.map /\ Len(runs_) >= 3
             anoms == <<runs_[1][pair.run1Idx], runs_[2][pair.run2Idx]>>
                        \o (IF extend
                            THEN <<runs_[3][st.map[pair.run2Idx].run3Idx]>>
                            ELSE << >>)
             runIndices == <<0, 1>> \o (IF extend THEN <<2>> ELSE << >>)
             confidence == pair.similarity.total
         IN ChainPairs(runs_, pairs, k + 1,
              [map |-> IF extend THEN MapDelete(st.map, pair.run2Idx) ELSE st.map,
               all |-> Append(st.all,
                         buildMatchObject(anoms, runIndices, confidence,
                                          PairStatus(confidence), pair.similarity))])

\* lines 154-176: the new anomalies of run 2 from the k-th on
RECURSIVE ChainNew(_, _, _, _)
ChainNew(runs_, newAnomalies, k, st) ==
    IF k > Len(newAnomalies) THEN st
    ELSE LET run2Idx == newAnomalies[k]
             extend == run2Idx \in DOMAIN st.map /\ Len(runs_) >= 3
             anoms == <<runs_[2][run2Idx]>>
                        \o (IF extend
                            THEN <<runs_[3][st.map[run2Idx].run3Idx]>>
                            ELSE << >>)
             runIndices == <<1>> \o (IF extend THEN <<2>> ELSE << >>)
         IN ChainNew(runs_, newAnomalies, k + 1,
              [map |-> IF extend THEN MapDelete(st.map, run2Idx) ELSE st.map,
               all |-> Append(st.all,
                         buildMatchObject(anoms, runIndices, 0, "new",
                                          ZeroSimilarity))])

\* lines 179-191: one chain per missing anomaly of run 1
ChainMissing(runs_, missingAnomalies) ==
    [k \in 1..Len(missingAnomalies) |->
        buildMatchObject(<<runs_[1][missingAnomalies[k]]>>, <<0>>, 0, "missing",
                         ZeroSimilarity)]

\* lines 195-209: the entries left in the map, in insertion order
ChainRemaining(runs_, m23, map) ==
    LET Left(pair) == pair.run1Idx \in DOMAIN map
        idx == SelectIndices(m23.pairs, Left)
    IN [k \in 1..Len(idx) |->
          buildMatchObject(<<runs_[3][map[m23.pairs[idx[k]].run1Idx].run3Idx]>>,
                           <<2>>, 0, "new", ZeroSimilarity)]

\* lines 212-226 left out: run 3's unmatched anomalies get no chain
ChainRun3NewForgotten(runs_, newAnomalies) == << >>

\* lines 212-226: run 3's anomalies unmatched to run 2
ChainRun3New(runs_, newAnomalies) ==
    [k \in 1..Len(newAnomalies) |->
        buildMatchObject(<<runs_[3][newAnomalies[k]]>>, <<2>>, 0, "new",
                         ZeroSimilarity)]

\* lines 108-111: the pairwise matches matchAcrossRuns computes
Match12(runs_) ==
    IF Len(runs_) < 2 THEN NullMatch ELSE matchAnomalies(runs_[1], runs_[2])

Match23(runs_) ==
    IF Len(runs_) >= 3 THEN matchAnomalies(runs_[2], runs_[3]) ELSE NullMatch

\* lines 178-227: the chains after the two loops over run 2; st2 = [map, all]
ChainRest(runs_, m12, m23, st2) ==
    st2.all \o ChainMissing(runs_, m12.missingAnomalies)
            \o (IF IsNull(m23) THEN << >>
                ELSE ChainRemaining(runs_, m23, st2.map)
                         \o ChainRun3New(runs_, m23.newAnomalies))

\* lines 113-227: the chains built from the two pairwise matches
ChainAll(runs_, m12, m23) ==
    ChainRest(runs_, m12, m23,
        ChainNew(runs_, m12.newAnomalies, 1,
            ChainPairs(runs_, m12.pairs, 1,
                [map |-> Run2ToRun3Map(m23), all |-> << >>])))

\* lines 98-230
matchAcrossRuns(runs_) ==
    IF Len(runs_) < 2 THEN << >>
    ELSE ChainAll(runs_, Match12(runs_), Match23(runs_))

----------------------------------------------------------------------------
(* Specification of matchAcrossRuns: any runs of the bounded shapes (rows  *)
(* in the order of their distance, as the normalizer leaves them), then    *)
(* one call.                                                               *)

\* the anomalies a row can hold: three metal-loss or deformation features
\* near each other, one reference point, one feature further down the pipe
AnomalyKinds ==
    {[is_reference_point |-> FALSE, corrected_distance |-> Whole(1000),
      clock_degrees |-> 90, canonical_type |-> "metal_loss",
      depth_percent |-> 30, length |-> 2, width |-> 1],
     [is_reference_point |-> FALSE, corrected_distance |-> Whole(1050),
      clock_degrees |-> 270, canonical_type |-> "metal_loss",
      depth_percent |-> 30, length |-> 2, width |-> 1],
     [is_reference_point |-> FALSE, corrected_distance |-> Whole(1000),
      clock_degrees |-> 270, canonical_type |-> "dent",
      depth_percent |-> 0, length |-> 0, width |-> 0],
     [is_reference_point |-> TRUE, corrected_distance |-> Whole(1000),
      clock_degrees |-> 0, canonical_type |-> "girth_weld",
      depth_percent |-> 0, length |-> 0, width |-> 0],
     [is_reference_point |-> FALSE, corrected_distance |-> Whole(1250),
      clock_degrees |-> 90, canonical_type |-> "crack",
      depth_percent |-> 0, length |-> 0, width |-> 0]}

WithId(kind, i) ==
    [id |-> i,
     is_reference_point |-> kind.is_reference_point,
     corrected_distance |-> kind.corrected_distance,
     clock_degrees |-> kind.clock_degrees,
     canonical_type |-> kind.canonical_type,
     depth_percent |-> kind.depth_percent,
     length |-> kind.length,
     width |-> kind.width]

\* rows first..last of kinds as one run, each row's id its index in the run
RunOf(kinds, first, last) ==
    [i \in 1..(last - first + 1) |-> WithId(kinds[first + i - 1], i)]

\* a run's rows are in the order of their distance
SortedByDistance(run) ==
    \A i \in 1..Len(run) : \A k \in 1..Len(run) :
        i < k => ~FracLess(run[k].corrected_distance, run[i].corrected_distance)

\* where each of n runs ends in a row of total rows: ends[r - 1] <= ends[r],
\* the last run ending at the last row
RunEnds(n, total) ==
    {ends \in [1..n -> 0..total] :
        /\ n = 0 => total = 0
        /\ n > 0 => ends[n] = total
        /\ \A r \in 1..(n - 1) : ends[r] <= ends[r + 1]}

SplitRuns(kinds, ends) ==
    [r \in 1..Len(ends) |->
        RunOf(kinds, (IF r = 1 THEN 0 ELSE ends[r - 1]) + 1, ends[r])]

InitMatch ==
    /\ pc = "runs"
    /\ \E n \in 0..MaxRuns : \E total \in 0..MaxAnomalies :
          \E ends \in RunEnds(n, total) : \E kinds \in [1..total -> AnomalyKinds] :
             /\ runs = SplitRuns(kinds, ends)
             /\ \A r \in 1..n : SortedByDistance(runs[r])
    /\ match12 = NullMatch /\ match23 = NullMatch /\ allMatches = << >>
    /\ costMatrix = << >> /\ assignment = << >>
    /\ run1Refs = << >> /\ run2Refs = << >> /\ anomalies = << >>
    /\ matched = << >> /\ zones = << >> /\ corrected = << >>
    /\ refPoints = << >> /\ correctedRuns = << >> /\ loopI = 0
    /\ IdleSide /\ IdleStore

CallMatchAcrossRuns ==
    /\ pc = "runs"
    /\ match12' = Match12(runs)
    /\ match23' = Match23(runs)
    /\ allMatches' = matchAcrossRuns(runs)
    /\ pc' = "chained"
    /\ UNCHANGED <<runs, hungarianVars, alignVars, pipelineVars>>
    /\ UNCHANGED <<sideVars, storeVars>>

SpecMatch == InitMatch /\ [][CallMatchAcrossRuns]_vars


----------------------------------------------------------------------------
(* Chains as sets of (run, row): the member at position k of a chain is    *)
(* the anomaly of run run_indices[k] whose id (its row) is anomalies[k].id.*)

ChainPositions(all) ==
    {<<c, k>> : c \in 1..Len(all), k \in 1..MaxRuns} \cap
    {ck \in (1..Len(all)) \X (1..MaxRuns) : ck[2] <= Len(all[ck[1]].anomalies)}

MemberAt(all, ck) ==
    <<all[ck[1]].run_indices[ck[2]], all[ck[1]].anomalies[ck[2]].id>>

\* the number of chain positions holding row `row` of the code's runs[run]
Occurrences(all, run, row) ==
    Cardinality({ck \in ChainPositions(all) : MemberAt(all, ck) = <<run, row>>})

\* every chain is well formed: as many run indices as anomalies, each
\* anomaly the row of the run it is said to come from
ChainsWellFormed(all, runs_) ==
    \A c \in 1..Len(all) :
        /\ Len(all[c].anomalies) = Len(all[c].run_indices)
        /\ Len(all[c].anomalies) >= 1
        /\ \A k \in 1..Len(all[c].anomalies) :
              LET run == all[c].run_indices[k]
                  row == all[c].anomalies[k].id
              IN /\ run + 1 \in 1..Len(runs_)
                 /\ row \in 1..Len(runs_[run + 1])
                 /\ all[c].anomalies[k] = runs_[run + 1][row]

----------------------------------------------------------------------------
(* C1 *)

\* C1 as stated: after matchAcrossRuns over K runs, every anomaly (run, row)
\* of every input run appears in exactly one chain.
C1_EveryAnomalyInOneChain ==
    pc = "chained" =>
        \A r \in 1..Len(runs) : \A row \in 1..Len(runs[r]) :
            Occurrences(allMatches, r - 1, row) = 1

\* C1 as amended: after matchAcrossRuns over 2 or 3 runs, every anomaly that
\* is not a reference point appears in exactly one chain, and a reference
\* point (girth weld, valve, fitting) appears in none.
C1_EveryNonReferenceInOneChain ==
    (pc = "chained" /\ Len(runs) \in {2, 3}) =>
        /\ ChainsWellFormed(allMatches, runs)
        /\ \A r \in 1..Len(runs) : \A row \in 1..Len(runs[r]) :
              Occurrences(allMatches, r - 1, row) =
                  (IF runs[r][row].is_reference_point THEN 0 ELSE 1)

\* three runs, a chain through all three, and a reference point in a run
C1_Witness ==
    /\ pc = "chained"
    /\ Len(runs) = 3
    /\ \E c \in 1..Len(allMatches) : Len(allMatches[c].anomalies) = 3
    /\ \E r \in 1..3 : \E row \in 1..Len(runs[r]) : runs[r][row].is_reference_point

----------------------------------------------------------------------------
(* C6 *)

\* C6: no anomaly (run, row) appears in more than one chain produced by
\* matchAcrossRuns, for inputs of 2 or 3 runs.
C6_NoAnomalyInTwoChains ==
    (pc = "chained" /\ Len(runs) \in {2, 3}) =>
        \A ck1 \in ChainPositions(allMatches) :
            \A ck2 \in ChainPositions(allMatches) :
                ck1 # ck2 => MemberAt(allMatches, ck1) # MemberAt(allMatches, ck2)

\* an anomaly new in run 2 is continued into run 3, beside a chain that
\* starts in run 1: entries of the run-2-to-run-3 map were consumed
C6_Witness ==
    /\ pc = "chained"
    /\ Len(runs) = 3
    /\ \E c \in 1..Len(allMatches) : allMatches[c].run_indices = <<1, 2>>
    /\ \E c \in 1..Len(allMatches) : allMatches[c].run_indices = <<0, 1>>

----------------------------------------------------------------------------
(* C7 *)

\* C7: every chain has status matched only with confidence >= 0.70,
\* uncertain only with 0.40 <= confidence < 0.70, new or missing only with
\* confidence 0.
C7_StatusAgreesWithConfidence ==
    pc = "chained" =>
        \A c \in 1..Len(allMatches) :
            LET chain == allMatches[c]
            IN /\ chain.match_status \in {"matched", "uncertain", "new", "missing"}
               /\ chain.match_status = "matched" =>
                     chain.confidence >= CONFIDENCE_HIGH
               /\ chain.match_status = "uncertain" =>
                     /\ chain.confidence >= CONFIDENCE_LOW
                     /\ chain.confidence < CONFIDENCE_HIGH
               /\ chain.match_status \in {"new", "missing"} =>
                     chain.confidence = 0

\* a chain accepted at exactly 0.40 beside a chain that is matched
C7_Witness ==
    /\ pc = "chained"
    /\ \E c \in 1..Len(allMatches) :
          /\ allMatches[c].match_status = "uncertain"
          /\ allMatches[c].confidence = CONFIDENCE_LOW
    /\ \E c \in 1..Len(allMatches) : allMatches[c].match_status = "matched"

----------------------------------------------------------------------------
(* C9 *)

PairsInjective(m) ==
    \A i \in 1..Len(m.pairs) : \A k \in 1..Len(m.pairs) :
        i # k => /\ m.pairs[i].run1Idx # m.pairs[k].run1Idx
                 /\ m.pairs[i].run2Idx # m.pairs[k].run2Idx

\* C9: in the pairs returned by matchAnomalies, each run-1 index and each
\* run-2 index occurs in at most one accepted pair.
C9_PairsInjective ==
    pc = "chained" =>
        /\ ~IsNull(match12) => PairsInjective(match12)
        /\ ~IsNull(match23) => PairsInjective(match23)

\* two anomalies of run 1 could both pair with the same anomaly of run 2:
\* one got it, the other is reported missing
C9_Witness ==
    /\ pc = "chained"
    /\ ~IsNull(match12)
    /\ \E k \in 1..Len(match12.pairs) :
          \E i \in Range(match12.missingAnomalies) :
             calculateSimilarity(runs[1][i],
                                 runs[2][match12.pairs[k].run2Idx]).total
                 >= CONFIDENCE_LOW

----------------------------------------------------------------------------
(* growthRate.ts and priority.ts, as buildMatchObject calls them for one   *)
(* chain (part_005 lines 241-242).  Depths are whole percents, years whole *)
(* years; rates and times are exact fractions.                             *)

\* a chain spans at most MaxChainRuns runs
MaxChainRuns == 3

\* the wall loss (percent) at which an anomaly is critical
CriticalDepth == 80

FracLeq(x, y) == x.n * y.d <= y.n * x.d

FracAbs(x) == [n |-> Abs(x.n), d |-> x.d]

RECURSIVE SumProducts(_, _, _)
\* x[1]*y[1] + ... + x[k]*y[k]
SumProducts(x, y, k) ==
    IF k = 0 THEN 0 ELSE x[k] * y[k] + SumProducts(x, y, k - 1)

Ones(n) == [i \in 1..n |-> 1]

\* lines 104-109: the slope from the four sums; a zero denominator (all
\* years equal) gives slope 0
SlopeOf(n, sumX, sumY, sumXY, sumX2) ==
    IF n * sumX2 - sumX * sumX = 0 THEN Whole(0)
    ELSE Frac(n * sumXY - sumX * sumY, n * sumX2 - sumX * sumX)

\* lines 92-113 (the slope; the intercept serves predicted_depth_at_year only)
linearRegression(x, y) ==
    IF Len(x) < 2 THEN [slope |-> Whole(0)]
    ELSE [slope |-> SlopeOf(Len(x),
                            SumProducts(x, Ones(Len(x)), Len(x)),
                            SumProducts(y, Ones(Len(x)), Len(x)),
                            SumProducts(x, y, Len(x)),
                            SumProducts(x, x, Len(x)))]

\* a variant that divides by the slope whenever it is positive
timeToCriticalUnguarded(depthGrowthRate, currentDepth) ==
    IF FracLess(Whole(0), depthGrowthRate)
    THEN Frac((CriticalDepth - currentDepth) * depthGrowthRate.d, depthGrowthRate.n)
    ELSE IF currentDepth >= CriticalDepth THEN Whole(0)
    ELSE NullMatch

\* lines 70-76
timeToCritical(depthGrowthRate, currentDepth) ==
    IF FracLess(Whole(0), depthGrowthRate) /\ currentDepth < CriticalDepth
    THEN Frac((CriticalDepth - currentDepth) * depthGrowthRate.d, depthGrowthRate.n)
    ELSE IF currentDepth >= CriticalDepth THEN Whole(0)
    ELSE NullMatch

\* lines 39-44: the year of each anomaly of the chain
SeriesYears(runIndices, years_) ==
    [i \in 1..Len(runIndices) |-> years_[runIndices[i] + 1]]

Column(anoms, field) == [i \in 1..Len(anoms) |-> anoms[i][field]]

\* lines 62-86
GrowthOf(depthGrowthRate, lengthGrowthRate, widthGrowthRate, currentDepth) ==
    [depth_growth_rate |-> depthGrowthRate,
     length_growth_rate |-> lengthGrowthRate,
     width_growth_rate |-> widthGrowthRate,
     time_to_critical |-> timeToCritical(depthGrowthRate, currentDepth)]

\* lines 16-87
calculateGrowthRates(anoms, runIndices, years_) ==
    IF Len(anoms) < 2
    THEN [depth_growth_rate |-> Whole(0),
          length_growth_rate |-> Whole(0),
          width_growth_rate |-> Whole(0),
          time_to_critical |-> NullMatch]
    ELSE GrowthOf(
            linearRegression(SeriesYears(runIndices, years_),
                             Column(anoms, "depth_percent")).slope,
            linearRegression(SeriesYears(runIndices, years_),
                             Column(anoms, "length")).slope,
            linearRegression(SeriesYears(runIndices, years_),
                             Column(anoms, "width")).slope,
            anoms[Len(anoms)].depth_percent)

\* a variant that looks at the depth only
PriorityLevelByDepthOnly(depth, depthGrowth, ttc) ==
    IF depth >= 80 THEN "IMMEDIATE"
    ELSE IF depth >= 60 THEN "60-DAY"
    ELSE IF depth >= 40 THEN "180-DAY"
    ELSE IF depth >= 20 THEN "SCHEDULED"
    ELSE "MONITOR"

\* priority.ts (part_003) lines 33-89: the first band whose condition holds
PriorityLevel(depth, depthGrowth, ttc) ==
    IF \/ depth >= 80
       \/ (~IsNull(ttc) /\ FracLeq(ttc, Whole(1)))
       \/ FracLeq(Whole(8), depthGrowth)
    THEN "IMMEDIATE"
    ELSE IF \/ depth >= 60
            \/ FracLeq(Whole(5), depthGrowth)
            \/ (~IsNull(ttc) /\ FracLeq(ttc, Whole(3)))
    THEN "60-DAY"
    ELSE IF depth >= 40 \/ FracLeq(Whole(2), depthGrowth)
    THEN "180-DAY"
    ELSE IF depth >= 20 \/ FracLeq([n |-> 1, d |-> 2], depthGrowth)
    THEN "SCHEDULED"
    ELSE "MONITOR"

\* the score that goes with each level (lines 40, 54, 67, 78, 88)
PriorityScore(level) ==
    CASE level = "IMMEDIATE" -> 100
      [] level = "60-DAY" -> 80
      [] level = "180-DAY" -> 60
      [] level = "SCHEDULED" -> 40
      [] OTHER -> 20

\* part_003 lines 21-90; matchStatus is not read
classifyPriority(anoms, growth_, matchStatus) ==
    [level |-> PriorityLevel(anoms[Len(anoms)].depth_percent,
                             FracAbs(growth_.depth_growth_rate),
                             growth_.time_to_critical),
     score |-> PriorityScore(
                  PriorityLevel(anoms[Len(anoms)].depth_percent,
                                FracAbs(growth_.depth_growth_rate),
                                growth_.time_to_critical))]

\* the depths reported for the anomalies of a chain
DepthChoices == {10, 12, 25, 45, 62, 72, 79, 80, 90}

\* the inspection years
YearChoices == {2015, 2016, 2020}

\* run indices of a chain: consecutive runs first..last
ChainRunIndices(first, last) == [i \in 1..(last - first + 1) |-> first + i - 1]

ChainAnomaly(depth, k) ==
    [depth_percent |-> depth, length |-> 2 + k, width |-> 1]

InitAnalysis ==
    /\ pc = "chain"
    /\ \E first \in 0..(MaxChainRuns - 1) : \E last \in first..(MaxChainRuns - 1) :
          \E depths \in [1..(last - first + 1) -> DepthChoices] :
             /\ chainRunIndices = ChainRunIndices(first, last)
             /\ chainAnomalies =
                   [k \in 1..(last - first + 1) |-> ChainAnomaly(depths[k], k)]
    /\ years \in {ys \in [1..MaxChainRuns -> YearChoices] :
                     \A r \in 1..(MaxChainRuns - 1) : ys[r] <= ys[r + 1]}
    /\ growth = NullMatch /\ priority = NullMatch
    /\ IdleCore /\ IdleClean /\ IdleSim /\ IdleRepl /\ IdleStore

\* part_005 line 241
CallCalculateGrowthRates ==
    /\ pc = "chain"
    /\ growth' = calculateGrowthRates(chainAnomalies, chainRunIndices, years)
    /\ pc' = "grown"
    /\ UNCHANGED <<chainAnomalies, chainRunIndices, years, priority>>
    /\ UNCHANGED <<coreVars, cleanVars, simVars, replVars, storeVars>>

\* part_005 line 242
CallClassifyPriority ==
    /\ pc = "grown"
    /\ priority' = classifyPriority(chainAnomalies, growth, "matched")
    /\ pc' = "classified"
    /\ UNCHANGED <<chainAnomalies, chainRunIndices, years, growth>>
    /\ UNCHANGED <<coreVars, cleanVars, simVars, replVars, storeVars>>

NextAnalysis == CallCalculateGrowthRates \/ CallClassifyPriority

SpecAnalysis == InitAnalysis /\ [][NextAnalysis]_vars

----------------------------------------------------------------------------
(* C14, C15 *)

LatestDepth == chainAnomalies[Len(chainAnomalies)].depth_percent

AbsDepthGrowth == FracAbs(growth.depth_growth_rate)

C15_TimeToCritical ==
    pc \in {"grown", "classified"} =>
       LET n == Len(chainAnomalies)
           slope == growth.depth_growth_rate
           t == growth.time_to_critical
           y == SeriesYears(chainRunIndices, years)
       IN /\ n = 1 =>
                /\ growth.depth_growth_rate = Whole(0)
                /\ growth.length_growth_rate = Whole(0)
                /\ growth.width_growth_rate = Whole(0)
                /\ IsNull(t)
          /\ (n = 2 /\ y[1] # y[2]) =>
                slope.n * (y[2] - y[1]) =
                   (chainAnomalies[2].depth_percent
                       - chainAnomalies[1].depth_percent) * slope.d
          /\ (n >= 2 /\ LatestDepth >= 80) => t = Whole(0)
          /\ (n >= 2 /\ LatestDepth < 80 /\ slope.n > 0) =>
                /\ ~IsNull(t)
                /\ t.n * slope.n = (80 - LatestDepth) * t.d * slope.d
          /\ (n >= 2 /\ LatestDepth < 80 /\ slope.n <= 0) => IsNull(t)

\* a growing chain of three anomalies still below 80 percent, with a time
\* to critical that is not a whole number of years
C15_Witness ==
    /\ pc = "grown"
    /\ Len(chainAnomalies) = 3
    /\ LatestDepth < 80
    /\ growth.depth_growth_rate.n > 0
    /\ ~IsNull(growth.time_to_critical)
    /\ growth.time_to_critical.d > 1

----------------------------------------------------------------------------
(* C19 *)

\* C19: every chain with two or more anomalies has status matched or
\* uncertain, decided by the similarity total of the first pair forming
\* the chain (>= 0.70 matched, 0.40 <= c < 0.70 uncertain), chains that
\* start at an intermediate run included; status new or missing occurs
\* only on chains of a single run.
C19_MultiRunChainsMatchedOrUncertain ==
    pc = "chained" =>
        \A c \in 1..Len(allMatches) :
            LET chain == allMatches[c]
            IN /\ Len(chain.anomalies) >= 2 =>
                     /\ chain.match_status \in {"matched", "uncertain"}
                     /\ chain.match_status = "matched" <=>
                           calculateSimilarity(chain.anomalies[1],
                                               chain.anomalies[2]).total
                              >= CONFIDENCE_HIGH
               /\ chain.match_status \in {"new", "missing"} =>
                     Len(chain.anomalies) = 1

----------------------------------------------------------------------------
(* dataCleaner.ts (part_002): cleanData.  Distances are whole feet (whole  *)
(* metres before conversion), lengths and widths whole inches (whole mm),  *)
(* wall thicknesses thousandths of an inch (of a mm).  A converted or      *)
(* interpolated value is rounded to the model's unit where the code keeps  *)
(* the double.  Flags carry their name, without the formatted amount.      *)

\* cleanData is checked on runs of up to MaxCleanRows rows
MaxCleanRows == 3

\* one doubling step of MulDiv
MulDivStep(h, bit, num, den) ==
    [q |-> 2 * h.q + bit * (num \div den) + (2 * h.r + bit * (num % den)) \div den,
     r |-> (2 * h.r + bit * (num % den)) % den]

RECURSIVE MulDiv(_, _, _)
\* [q, r] with x * num = q * den + r and 0 <= r < den, for x >= 0, computed
\* without forming x * num
MulDiv(x, num, den) ==
    IF x = 0 THEN [q |-> 0, r |-> 0]
    ELSE MulDivStep(MulDiv(x \div 2, num, den), x % 2, num, den)

RoundQuotient(qr, den) == qr.q + (IF 2 * qr.r >= den THEN 1 ELSE 0)

\* x * num / den to the nearest whole
ScaleRound(x, num, den) == RoundQuotient(MulDiv(x, num, den), den)

\* line 132: METERS_TO_FEET = 3.28084
MetersToFeet(x) == ScaleRound(x, 328084, 100000)

\* lines 153, 173: MM_TO_IN = 0.0393701
MmToInches(x) == ScaleRound(x, 393701, 10000000)

\* the k-th smallest of the values (k from 1)
KthSmallest(values, k) ==
    CHOOSE v \in Range(values) :
        /\ Cardinality({i \in DOMAIN values : values[i] < v}) < k
        /\ k <= Cardinality({i \in DOMAIN values : values[i] <= v})

\* lines 501-508, doubled so that the mean of the two middle values is whole
Median2(values) ==
    IF Len(values) = 0 THEN 0
    ELSE IF Len(values) % 2 # 0
    THEN 2 * KthSmallest(values, Len(values) \div 2 + 1)
    ELSE KthSmallest(values, Len(values) \div 2)
            + KthSmallest(values, Len(values) \div 2 + 1)

PickRows(data, idx) == [k \in 1..Len(idx) |-> data[idx[k]]]

\* data.filter(a => a[field] > 0).map(a => a[field])
PositiveValues(data, field) ==
    Column(PickRows(data, TrueIndices([i \in 1..Len(data) |-> data[i][field] > 0], 1)),
           field)

AddFlag(a, flag) == [a EXCEPT !.cleaning_flags = Append(@, flag)]

\* line 84: the composite key of a row
DedupKey(a) == <<a.distance, a.clock_degrees, a.canonical_type, a.depth_percent>>

\* lines 74-104
removeDuplicates(data) ==
    [result |->
        PickRows(data,
            TrueIndices([i \in 1..Len(data) |->
                            \A j \in 1..(i - 1) : DedupKey(data[j]) # DedupKey(data[i])],
                        1))]

\* lines 122-130
DistanceInMeters(distances) ==
    /\ Len(distances) > 0
    /\ MaxOf(Range(distances)) < 100000
    /\ Median2(distances) < 2 * 30000

\* lines 148-151
DimensionsInMm(lengths) == Len(lengths) > 0 /\ Median2(lengths) > 2 * 10

\* lines 167-171, in thousandths
WallThicknessInMm(wts) == Len(wts) > 0 /\ Median2(wts) > 2 * 3000

ConvertFrac(x) ==
    IF x.d = 1 THEN Whole(MetersToFeet(x.n)) ELSE Frac(MetersToFeet(x.n), x.d)

\* a variant of the distance conversion that leaves corrected_distance alone
ConvertDistanceKeepingCorrected(a) ==
    AddFlag([a EXCEPT !.distance = MetersToFeet(@),
                      !.odometer = MetersToFeet(@)],
            "distance_converted_m_to_ft")

\* lines 133-139
ConvertDistance(a) ==
    AddFlag([a EXCEPT !.distance = MetersToFeet(@),
                      !.odometer = MetersToFeet(@),
                      !.corrected_distance = ConvertFrac(@)],
            "distance_converted_m_to_ft")

\* lines 154-159
ConvertDimensions(a) ==
    AddFlag([a EXCEPT !.length = MmToInches(@), !.width = MmToInches(@)],
            "dimensions_converted_mm_to_in")

\* lines 174-178
ConvertWallThickness(a) ==
    AddFlag([a EXCEPT !.wall_thickness = MmToInches(@)], "wt_converted_mm_to_in")

WithDistance(a, meters) == IF meters THEN ConvertDistance(a) ELSE a

WithDimensions(a, mm) == IF mm THEN ConvertDimensions(a) ELSE a

WithWallThickness(a, mm) == IF mm THEN ConvertWallThickness(a) ELSE a

\* lines 117-182: the three conversions, each decided on the data as given
ConvertAll(data, meters, mmDims, mmWt) ==
    [result |->
        [i \in 1..Len(data) |->
            WithWallThickness(WithDimensions(WithDistance(data[i], meters), mmDims),
                              mmWt)],
     conversions |->
        (IF meters THEN <<"distance", "odometer">> ELSE << >>)
           \o (IF mmDims THEN <<"length", "width">> ELSE << >>)
           \o (IF mmWt THEN <<"wall_thickness">> ELSE << >>)]

\* lines 110-198
detectAndConvertUnits(data) ==
    ConvertAll(data,
               DistanceInMeters(PositiveValues(data, "distance")),
               DimensionsInMm(PositiveValues(data, "length")),
               WallThicknessInMm(PositiveValues(data, "wall_thickness")))

\* lines 219-229: the flags of the clamps applied to a row, in order
ClampFlags(a) ==
    (IF a.depth_percent < 0 THEN <<"depth_clamped_low">> ELSE << >>)
       \o (IF a.depth_percent > 100 THEN <<"depth_clamped_high">> ELSE << >>)
       \o (IF a.wall_thickness > 0 /\ a.wall_thickness < 50
           THEN <<"wt_clamped_low">> ELSE << >>)
       \o (IF a.wall_thickness > 2500 THEN <<"wt_clamped_high">> ELSE << >>)
       \o (IF a.length > 100 THEN <<"length_clamped">> ELSE << >>)
       \o (IF a.width > 100 THEN <<"width_clamped">> ELSE << >>)

\* lines 212-239
ClampRow(a) ==
    [a EXCEPT !.depth_percent = IF @ < 0 THEN 0 ELSE IF @ > 100 THEN 100 ELSE @,
              !.wall_thickness = IF @ > 0 /\ @ < 50 THEN 188
                                 ELSE IF @ > 2500 THEN 2000 ELSE @,
              !.length = IF @ > 100 THEN 100 ELSE @,
              !.width = IF @ > 100 THEN 100 ELSE @,
              !.cleaning_flags = @ \o ClampFlags(a)]

\* lines 204-257
clampOutliers(data) ==
    [result |-> [i \in 1..Len(data) |-> ClampRow(data[i])],
     outlierCount |->
        SumOver([i \in 1..Len(data) |-> Len(ClampFlags(data[i]))], 1..Len(data))]

\* lines 278-281
DistanceInterpolable(data, i) ==
    /\ data[i].distance = 0
    /\ i > 1 /\ i < Len(data)
    /\ data[i - 1].distance > 0 /\ data[i + 1].distance > 0

\* lines 295
OdometerMissing(a) == a.odometer = 0 /\ a.distance > 0

\* lines 274-306
InterpolateRow(data, i) ==
    IF DistanceInterpolable(data, i)
    THEN AddFlag([data[i] EXCEPT
                     !.distance = (data[i - 1].distance + data[i + 1].distance) \div 2,
                     !.corrected_distance =
                         Whole((data[i - 1].distance + data[i + 1].distance) \div 2)],
                 "distance_interpolated")
    ELSE IF OdometerMissing(data[i])
    THEN AddFlag([data[i] EXCEPT !.odometer = data[i].distance],
                 "odometer_from_distance")
    ELSE data[i]

\* lines 263-324
interpolateMissing(data) ==
    [result |-> [i \in 1..Len(data) |-> InterpolateRow(data, i)],
     interpCount |->
        Cardinality({i \in 1..Len(data) :
                        DistanceInterpolable(data, i) \/ OdometerMissing(data[i])})]

\* line 343 with <= for <: a row at the distance of the one before it counts
\* as a jump
BackwardJumpOrEqual(data, i) ==
    /\ i > 1
    /\ data[i].distance <= data[i - 1].distance
    /\ data[i].distance > 0 /\ data[i - 1].distance > 0

\* line 343
BackwardJump(data, i) ==
    /\ i > 1
    /\ data[i].distance < data[i - 1].distance
    /\ data[i].distance > 0 /\ data[i - 1].distance > 0

\* lines 330-379: backward jumps are flagged, nothing is moved
enforceMonotonicity(data) ==
    [result |->
        [i \in 1..Len(data) |->
            IF BackwardJump(data, i)
            THEN AddFlag(data[i],
                         IF data[i - 1].distance - data[i].distance < 10
                         THEN "distance_backward_jump"
                         ELSE "distance_major_backward_jump")
            ELSE data[i]],
     issueCount |-> Cardinality({i \in 1..Len(data) : BackwardJump(data, i)})]

RECURSIVE Flatten(_)
\* Array.prototype.flat
Flatten(seqs) ==
    IF seqs = << >> THEN << >> ELSE Flatten(SubSeq(seqs, 1, Len(seqs) - 1)) \o seqs[Len(seqs)]

\* lines 420-435: a wall thickness more than 30 percent off the median of
\* the other runs (median2 is twice that median)
FlagDeviation(a, median2) ==
    IF a.wall_thickness > 0 /\ 10 * Abs(2 * a.wall_thickness - median2) > 3 * median2
    THEN AddFlag(a, "wt_cross_run_deviation")
    ELSE a

\* lines 385-452
crossRunWallThickness(data, otherWts) ==
    IF Len(otherWts) = 0 THEN data
    ELSE [i \in 1..Len(data) |-> FlagDeviation(data[i], Median2(otherWts))]

\* lines 465-478
flagZeroDimensions(data) ==
    [i \in 1..Len(data) |->
        IF /\ ~data[i].is_reference_point
           /\ data[i].length = 0 /\ data[i].width = 0 /\ data[i].depth_percent = 0
        THEN [AddFlag(data[i], "zero_dimensions") EXCEPT !.has_missing_data = TRUE]
        ELSE data[i]]

\* a CleaningPass: its name, and whether its details say it was skipped
CleaningPass(name, skipped) == [name |-> name, skipped |-> skipped]

\* lines 20-52 (passes.push): the passes of the report, in order; pass 6 is
\* pushed only when other runs were given (lines 43-47), and says it was
\* skipped when they hold no wall thickness (lines 405-415)
CleaningPasses(otherRuns) ==
    <<CleaningPass("Duplicate Removal", FALSE),
      CleaningPass("Unit Detection & Conversion", FALSE),
      CleaningPass("Outlier Clamping", FALSE),
      CleaningPass("Missing Value Interpolation", FALSE),
      CleaningPass("Distance Monotonicity", FALSE)>>
    \o (IF Len(otherRuns) > 0
        THEN <<CleaningPass("Cross-Run WT Consistency",
                   Len(PositiveValues(Flatten(otherRuns), "wall_thickness")) = 0)>>
        ELSE << >>)
    \o <<CleaningPass("Zero Dimension Check", FALSE)>>

\* lines 43-67: passes 6 and 7 and the report
CleanReport(anoms, runIndex, runYear, otherRuns, deduped, units, clamped, interp, mono) ==
    [cleaned |->
        flagZeroDimensions(
            IF Len(otherRuns) > 0
            THEN crossRunWallThickness(mono.result,
                                       PositiveValues(Flatten(otherRuns),
                                                      "wall_thickness"))
            ELSE mono.result),
     report |->
        [run_index |-> runIndex,
         run_year |-> runYear,
         original_row_count |-> Len(anoms),
         final_row_count |-> Len(mono.result),
         duplicates_removed |-> Len(anoms) - Len(deduped.result),
         units_converted |-> units.conversions,
         outliers_clamped |-> clamped.outlierCount,
         missing_values_interpolated |-> interp.interpCount,
         distance_monotonicity_issues |-> mono.issueCount,
         passes |-> CleaningPasses(otherRuns)]]

\* lines 37-40
CleanFromInterpolated(anoms, runIndex, runYear, otherRuns, deduped, units, clamped, interp) ==
    CleanReport(anoms, runIndex, runYear, otherRuns,
                deduped, units, clamped, interp, enforceMonotonicity(interp.result))

\* lines 32-35
CleanFromClamped(anoms, runIndex, runYear, otherRuns, deduped, units, clamped) ==
    CleanFromInterpolated(anoms, runIndex, runYear, otherRuns,
                          deduped, units, clamped, interpolateMissing(clamped.result))

\* lines 27-30
CleanFromConverted(anoms, runIndex, runYear, otherRuns, deduped, units) ==
    CleanFromClamped(anoms, runIndex, runYear, otherRuns,
                     deduped, units, clampOutliers(units.result))

\* lines 22-25
CleanFromDeduped(anoms, runIndex, runYear, otherRuns, deduped) ==
    CleanFromConverted(anoms, runIndex, runYear, otherRuns,
                       deduped, detectAndConvertUnits(deduped.result))

\* lines 7-68
cleanData(anoms, runIndex, runYear, otherRuns) ==
    CleanFromDeduped(anoms, runIndex, runYear, otherRuns, removeDuplicates(anoms))

----------------------------------------------------------------------------
(* Specification of cleanData applied to a normalized run and then to its  *)
(* own output.  A run is a sequence of rows by rising distance, as         *)
(* normalizeAnomalies leaves it (normalizer.ts line 60); a missing         *)
(* distance is 0 (line 27) and so comes first.                             *)

\* what a row reports besides its distance
CleanRowKinds ==
    {[canonical_type |-> "metal_loss", is_reference_point |-> FALSE,
      depth_percent |-> 30, length |-> 2, width |-> 1, wall_thickness |-> 375,
      located |-> TRUE],
     [canonical_type |-> "metal_loss", is_reference_point |-> FALSE,
      depth_percent |-> 30, length |-> 51, width |-> 25, wall_thickness |-> 9525,
      located |-> TRUE],
     [canonical_type |-> "metal_loss", is_reference_point |-> FALSE,
      depth_percent |-> 45, length |-> 300, width |-> 120, wall_thickness |-> 9525,
      located |-> TRUE],
     [canonical_type |-> "girth_weld", is_reference_point |-> TRUE,
      depth_percent |-> 0, length |-> 0, width |-> 0, wall_thickness |-> 375,
      located |-> TRUE],
     [canonical_type |-> "dent", is_reference_point |-> FALSE,
      depth_percent |-> 120, length |-> 2, width |-> 1, wall_thickness |-> 30,
      located |-> TRUE],
     [canonical_type |-> "metal_loss", is_reference_point |-> FALSE,
      depth_percent |-> 30, length |-> 2, width |-> 1, wall_thickness |-> 375,
      located |-> FALSE]}

\* where the rows lie: a short line surveyed in metres, a long line
\* surveyed in metres, a line surveyed in feet
DistanceLayouts ==
    {[first |-> 100, step |-> 100],
     [first |-> 10000, step |-> 10000],
     [first |-> 100100, step |-> 100]}

RECURSIVE RowPositions(_, _)
\* the position of each row: the one before it repeated, or the next one
RowPositions(repeats, k) ==
    IF k = 0 THEN << >>
    ELSE IF k = 1 THEN <<1>>
    ELSE Append(RowPositions(repeats, k - 1),
                RowPositions(repeats, k - 1)[k - 1] + (IF repeats[k] THEN 0 ELSE 1))

\* normalizer.ts lines 37-58: the row as normalizeAnomalies returns it
NormalizedRow(k, kind, dist) ==
    [id |-> k,
     distance |-> dist,
     odometer |-> dist,
     corrected_distance |-> Whole(dist),
     joint_number |-> 0,
     is_reference_point |-> kind.is_reference_point,
     canonical_type |-> kind.canonical_type,
     clock_degrees |-> 90,
     depth_percent |-> kind.depth_percent,
     length |-> kind.length,
     width |-> kind.width,
     wall_thickness |-> kind.wall_thickness,
     has_missing_data |-> FALSE,
     cleaning_flags |-> << >>]

DirtyRow(k, kind, layout, position) ==
    NormalizedRow(k, kind,
                  IF kind.located THEN layout.first + layout.step * (position - 1)
                  ELSE 0)

\* the other run handed to cleanData for the wall thickness comparison
OtherRun == <<NormalizedRow(1, CHOOSE kind \in CleanRowKinds :
                                   kind.is_reference_point, 100100)>>

InitClean ==
    /\ pc = "dirty"
    /\ \E n \in 0..MaxCleanRows : \E layout \in DistanceLayouts :
          \E kinds \in [1..n -> CleanRowKinds] : \E repeats \in [1..n -> BOOLEAN] :
             /\ n > 0 => ~repeats[1]
             /\ dirtyRun = [k \in 1..n |->
                               DirtyRow(k, kinds[k], layout, RowPositions(repeats, n)[k])]
             /\ \A k \in 1..(n - 1) : dirtyRun[k].distance <= dirtyRun[k + 1].distance
    /\ cleanedOnce = NullMatch /\ cleanedTwice = NullMatch
    /\ IdleCore /\ IdleAnalysis /\ IdleSim /\ IdleRepl /\ IdleStore

\* pipeline.ts line 44
CallCleanData ==
    /\ pc = "dirty"
    /\ cleanedOnce' = cleanData(dirtyRun, 0, 2015, <<OtherRun>>)
    /\ pc' = "cleaned_once"
    /\ UNCHANGED <<dirtyRun, cleanedTwice>>
    /\ UNCHANGED <<coreVars, analysisVars, simVars, replVars, storeVars>>

\* cleanData again, on what it returned
CallCleanDataAgain ==
    /\ pc = "cleaned_once"
    /\ cleanedTwice' = cleanData(cleanedOnce.cleaned, 0, 2015, <<OtherRun>>)
    /\ pc' = "cleaned_twice"
    /\ UNCHANGED <<dirtyRun, cleanedOnce>>
    /\ UNCHANGED <<coreVars, analysisVars, simVars, replVars, storeVars>>

NextClean == CallCleanData \/ CallCleanDataAgain

SpecClean == InitClean /\ [][NextClean]_vars

----------------------------------------------------------------------------
(* C17 *)

SameMeasures(a, b) ==
    /\ a.distance = b.distance
    /\ a.length = b.length
    /\ a.width = b.width
    /\ a.wall_thickness = b.wall_thickness

\* C17: applying cleanData a second time to its own output performs no
\* further unit conversion: the second report lists no conversions, and
\* distances, lengths, widths and wall thicknesses are left as the first
\* application returned them.
C17_SecondCleanConvertsNothing ==
    pc = "cleaned_twice" =>
       /\ cleanedTwice.report.units_converted = << >>
       /\ Len(cleanedTwice.cleaned) = Len(cleanedOnce.cleaned)
       /\ \A i \in 1..Len(cleanedOnce.cleaned) :
             i <= Len(cleanedTwice.cleaned) =>
                SameMeasures(cleanedOnce.cleaned[i], cleanedTwice.cleaned[i])

----------------------------------------------------------------------------
(* pipeline.ts: runPipeline.  The runs are the files' normalized rows      *)
(* sorted by year; they are cleaned, reference points are extracted, each  *)
(* later run is aligned on the run before it, the corrected runs are       *)
(* matched and the results are written to the store.  Each action is the   *)
(* code between two awaits, or one pass of the alignment loop.  GPS        *)
(* coordinates (lines 107-119) add latitude and longitude to the stored    *)
(* rows and are not part of the model.                                     *)

MaxPipelineRuns == 3

\* the features of one physical pipe, by rising distance: weld, metal loss,
\* weld, metal loss
Pipe ==
    <<[distance |-> 100, is_reference_point |-> TRUE, joint_number |-> 1,
       canonical_type |-> "girth_weld", clock_degrees |-> 0,
       depth_percent |-> 0, length |-> 0, width |-> 0],
      [distance |-> 200, is_reference_point |-> FALSE, joint_number |-> 0,
       canonical_type |-> "metal_loss", clock_degrees |-> 90,
       depth_percent |-> 30, length |-> 2, width |-> 1],
      [distance |-> 300, is_reference_point |-> TRUE, joint_number |-> 2,
       canonical_type |-> "girth_weld", clock_degrees |-> 0,
       depth_percent |-> 0, length |-> 0, width |-> 0],
      [distance |-> 400, is_reference_point |-> FALSE, joint_number |-> 0,
       canonical_type |-> "metal_loss", clock_degrees |-> 90,
       depth_percent |-> 30, length |-> 2, width |-> 1]>>

\* what one inspection reports of the pipe: all of it, all but the first
\* anomaly, one weld and one anomaly, the anomalies only, or nothing
Observations == {DOMAIN Pipe, {1, 3, 4}, {1, 2}, {2, 4}, {}}

\* the odometer offset of a later inspection
OdometerShifts == {0, 50}

\* where the inspections place the pipe's start: at 0 of a survey in metres,
\* or at 100000 of a survey in feet
SurveyOrigins == {0, 100000}

\* the wall thickness every inspection reports for every row, in
\* thousandths: 0.375 (inches) or 9.525 (the same wall in millimetres)
WallThicknesses == {375, 9525}

RECURSIVE AscendingSeq(_)
AscendingSeq(S) ==
    IF S = {} THEN << >>
    ELSE LET top == MaxOf(S) IN Append(AscendingSeq(S \ {top}), top)

\* normalizer.ts lines 37-60: the rows of one inspection file, by rising
\* distance; corrected_distance starts as the distance (line 42)
ObservedRow(k, feature, origin, shift, wall) ==
    [id |-> k,
     distance |-> origin + feature.distance + shift,
     odometer |-> origin + feature.distance + shift,
     corrected_distance |-> Whole(origin + feature.distance + shift),
     joint_number |-> feature.joint_number,
     is_reference_point |-> feature.is_reference_point,
     canonical_type |-> feature.canonical_type,
     clock_degrees |-> feature.clock_degrees,
     depth_percent |-> feature.depth_percent,
     length |-> feature.length,
     width |-> feature.width,
     wall_thickness |-> wall,
     has_missing_data |-> FALSE,
     cleaning_flags |-> << >>]

ObservedRun(seen, origin, shift, wall) ==
    [k \in 1..Len(AscendingSeq(seen)) |->
        ObservedRow(k, Pipe[AscendingSeq(seen)[k]], origin, shift, wall)]

\* lines 28-29: the years of the files, sorted
SortedYears(n) == [r \in 1..n |-> 2010 + 5 * r]

InitPipeline ==
    /\ pc = "start"
    /\ \E n \in 0..MaxPipelineRuns :
          \E seen \in [1..n -> Observations] :
             \E shift \in [1..n -> OdometerShifts] : \E origin \in SurveyOrigins :
                \E wall \in WallThicknesses :
                   /\ n > 0 => shift[1] = 0
                   /\ n = 0 => origin = 0
                   /\ origin = 0 => wall = 375
                   /\ rawRuns = [r \in 1..n |->
                                    ObservedRun(seen[r], origin, shift[r], wall)]
    /\ years \in {SortedYears(Len(rawRuns)), SortedYears(Len(rawRuns) + 1)}
    /\ store = initialStore
    /\ IdlePipeline /\ IdleAlign /\ IdleHungarian /\ IdleMatch
    /\ chainAnomalies = << >> /\ chainRunIndices = << >>
    /\ growth = NullMatch /\ priority = NullMatch
    /\ IdleClean /\ IdleSim /\ IdleRepl

\* pipelineStore.ts lines 80-81: the given fields replace those of processing
\* (the message, which nothing reads back, is left out)
setProcessing(s, status, progress) ==
    [s EXCEPT !.status = status, !.progress = progress]

\* the progress values of lines 32, 51, 57, 97, 103 and 124 with the one of
\* line 97 below that of line 57
ProgressWrittenLowAtMatching(position) ==
    CASE position = "normalizing" -> 5
      [] position = "cleaned" -> 10
      [] position = "aligning" -> 20
      [] position = "aligned" -> 15
      [] position = "analyzing" -> 75
      [] position = "complete" -> 100

\* the progress value runPipeline writes on reaching each position:
\* lines 32, 51, 57, 97, 103 and 124
ProgressWritten(position) ==
    CASE position = "normalizing" -> 5
      [] position = "cleaned" -> 10
      [] position = "aligning" -> 20
      [] position = "aligned" -> 50
      [] position = "analyzing" -> 75
      [] position = "complete" -> 100

\* lines 25-33
PipelineStart ==
    /\ pc = "start"
    /\ store' = setProcessing(store, "normalizing", ProgressWritten("normalizing"))
    /\ pc' = "normalizing"
    /\ UNCHANGED <<coreVars, sideVars, rawRuns>>

\* line 43: rawRuns.filter((_, j) => j !== i)
OtherRuns(rawRuns_, i) ==
    SubSeq(rawRuns_, 1, i - 1) \o SubSeq(rawRuns_, i + 1, Len(rawRuns_))

\* lines 42-47: the run index of the code is i - 1
CleanRun(rawRuns_, i) ==
    cleanData(rawRuns_[i], i - 1, SortedYears(Len(rawRuns_))[i], OtherRuns(rawRuns_, i))

\* lines 36-52
PipelineClean ==
    /\ pc = "normalizing"
    /\ runs' = [i \in 1..Len(rawRuns) |-> CleanRun(rawRuns, i).cleaned]
    /\ store' = setProcessing(
                    [store EXCEPT
                        !.cleaningReports =
                            [i \in 1..Len(rawRuns) |-> CleanRun(rawRuns, i).report]],
                    "aligning", ProgressWritten("cleaned"))
    /\ pc' = "cleaned"
    /\ UNCHANGED <<hungarianVars, alignVars, pipelineVars, matchVars, sideVars, rawRuns>>

\* lines 55-62; with no run at all runs[0] is undefined
PipelineExtractReferencePoints ==
    /\ pc = "cleaned"
    /\ refPoints' = [r \in 1..Len(runs) |-> extractReferencePoints(runs[r], r - 1)]
    /\ correctedRuns' = IF Len(runs) = 0 THEN <<NullMatch>> ELSE <<runs[1]>>
    /\ loopI' = 0
    /\ store' = setProcessing(store, "aligning", ProgressWritten("aligning"))
    /\ pc' = "aligning"
    /\ UNCHANGED <<runs, hungarianVars, alignVars, matchVars>>
    /\ UNCHANGED <<sideVars, rawRuns>>

\* lines 64-84, one pass of the loop with i = loopI
PipelineAlignRun ==
    /\ pc = "aligning"
    /\ loopI < Len(runs) - 1
    /\ LET matched_ == matchReferencePoints(refPoints[loopI + 1], refPoints[loopI + 2])
           zones_ == createAlignmentZones(matched_)
       IN /\ matched' = matched_
          /\ zones' = zones_
          /\ store' = [store EXCEPT !.alignmentZones = zones_]
          /\ correctedRuns' =
                Append(correctedRuns,
                       applyDistanceCorrection(runs[loopI + 2], zones_, matched_))
    /\ loopI' = loopI + 1
    /\ UNCHANGED <<pc, runs, refPoints, run1Refs, run2Refs, anomalies, corrected,
                   hungarianVars, matchVars>>
    /\ UNCHANGED <<sideVars, rawRuns>>

\* a variant of line 87 that also fails on a run without reference points
DriftRun0ThrowsWithoutReferences(refPoints_) ==
    Len(refPoints_) = 0 \/ refPoints_[1] = << >>

\* line 87: refPoints[0] is undefined when there is no run, and
\* calculateOdometerDrift calls its sort method (part_006 lines 12-13)
DriftRun0Throws(refPoints_) == Len(refPoints_) = 0

\* part_006 lines 7-22 and 61-80: the points of a run, by rising distance
DriftPoints(rows, runIndex) ==
    [k \in 1..Len(rows) |->
        [distance |-> StableSortBy(rows, RefDistance)[k].distance,
         run_index |-> runIndex]]

RECURSIVE DriftOfLaterRuns(_, _)
\* lines 82-83 over the loop: the later runs' reference points, in order
DriftOfLaterRuns(refPoints_, n) ==
    IF n <= 1 THEN << >>
    ELSE DriftOfLaterRuns(refPoints_, n - 1) \o DriftPoints(refPoints_[n], n - 1)

RECURSIVE FullDrift(_, _)
\* lines 91-94
FullDrift(runs_, n) ==
    IF n = 0 THEN << >>
    ELSE FullDrift(runs_, n - 1) \o DriftPoints(runs_[n], n - 1)

\* lines 82-94
AllDrift(runs_, refPoints_) ==
    DriftOfLaterRuns(refPoints_, Len(refPoints_))
        \o DriftPoints(refPoints_[1], 0)
        \o FullDrift(runs_, Len(runs_))

\* lines 64 and 86-98: the loop ends; the drift is computed and stored, or
\* the computation throws and runPipeline rejects
PipelineAlignDone ==
    /\ pc = "aligning"
    /\ ~(loopI < Len(runs) - 1)
    /\ IF DriftRun0Throws(refPoints)
       THEN /\ pc' = "threw"
            /\ UNCHANGED store
       ELSE /\ pc' = "aligned"
            /\ store' = setProcessing(
                            [store EXCEPT !.odometerDrift = AllDrift(runs, refPoints)],
                            "matching", ProgressWritten("aligned"))
    /\ UNCHANGED <<runs, hungarianVars, alignVars, pipelineVars, matchVars>>
    /\ UNCHANGED <<sideVars, rawRuns>>

\* lines 101-104
PipelineMatch ==
    /\ pc = "aligned"
    /\ match12' = Match12(correctedRuns)
    /\ match23' = Match23(correctedRuns)
    /\ allMatches' = matchAcrossRuns(correctedRuns)
    /\ store' = setProcessing(store, "analyzing", ProgressWritten("analyzing"))
    /\ pc' = "analyzing"
    /\ UNCHANGED <<runs, hungarianVars, alignVars, pipelineVars>>
    /\ UNCHANGED <<sideVars, rawRuns>>

\* lines 107-124
PipelineStoreResults ==
    /\ pc = "analyzing"
    /\ store' = setProcessing(
                    [store EXCEPT !.alignedAnomalies = Flatten(correctedRuns),
                                  !.matches = allMatches],
                    "complete", ProgressWritten("complete"))
    /\ pc' = "complete"
    /\ UNCHANGED <<coreVars, sideVars, rawRuns>>

NextPipeline ==
    \/ PipelineStart
    \/ PipelineClean
    \/ PipelineExtractReferencePoints
    \/ PipelineAlignRun
    \/ PipelineAlignDone
    \/ PipelineMatch
    \/ PipelineStoreResults

SpecPipeline == InitPipeline /\ [][NextPipeline]_vars

----------------------------------------------------------------------------
(* C3 *)

\* the offset of the later references against the earlier ones, read off
\* the first reference of each
ShiftOf(refsA, refsB) == refsB[1].distance - refsA[1].distance

\* C3: with three runs, when run 1's reference points are run 0's shifted
\* by D1 and run 2's are run 0's shifted by D2 (each pair of consecutive
\* runs having at least two matched references), every run-1 anomaly gets
\* corrected_distance = raw - D1 and every run-2 anomaly gets
\* corrected_distance = raw - D2: all runs are in run 0's frame.
C3_AllRunsInFrameOfRunZero ==
    (/\ pc \in {"aligned", "complete"}
     /\ Len(runs) = 3
     /\ Len(refPoints[1]) >= 2
     /\ Len(refPoints[2]) >= 2
     /\ Len(refPoints[3]) >= 2
     /\ ShiftedBy(refPoints[1], refPoints[2], ShiftOf(refPoints[1], refPoints[2]))
     /\ ShiftedBy(refPoints[1], refPoints[3], ShiftOf(refPoints[1], refPoints[3]))
     /\ Len(matchReferencePoints(refPoints[1], refPoints[2])) >= 2
     /\ Len(matchReferencePoints(refPoints[2], refPoints[3])) >= 2)
    => /\ CorrectedByShift(runs[2], correctedRuns[2],
                           ShiftOf(refPoints[1], refPoints[2]))
       /\ CorrectedByShift(runs[3], correctedRuns[3],
                           ShiftOf(refPoints[1], refPoints[3]))

----------------------------------------------------------------------------
(* C11, C12, C13, C20 *)

KeepsItsDistance(a) == a.corrected_distance = Whole(a.distance)

\* C11: after runPipeline, every anomaly of the reference run (index 0)
\* has corrected_distance equal to its distance, whatever cleaning passes
\* were applied to it: in the corrected runs and in the rows written to the
\* store.
C11_ReferenceRunKeepsDistance ==
    (pc = "complete" /\ Len(runs) >= 1) =>
       /\ Len(correctedRuns[1]) = Len(runs[1])
       /\ \A k \in 1..Len(correctedRuns[1]) :
             /\ KeepsItsDistance(correctedRuns[1][k])
             /\ correctedRuns[1][k].distance = runs[1][k].distance
             /\ KeepsItsDistance(store.alignedAnomalies[k])

\* three runs surveyed in metres: the reference run's rows were converted
\* to feet, and a later run was moved by the alignment
C11_Witness ==
    /\ pc = "complete"
    /\ Len(runs) = 3
    /\ Len(runs[1]) = Len(Pipe)
    /\ \A k \in 1..Len(runs[1]) :
          /\ "distance_converted_m_to_ft" \in Range(runs[1][k].cleaning_flags)
          /\ runs[1][k].distance # rawRuns[1][k].distance
    /\ \E k \in 1..Len(correctedRuns[2]) : ~KeepsItsDistance(correctedRuns[2][k])

NoResultsStored ==
    /\ store.cleaningReports = << >>
    /\ store.alignmentZones = << >>
    /\ store.odometerDrift = << >>
    /\ store.matches = << >>
    /\ store.alignedAnomalies = << >>

\* C12: runPipeline called with fewer than 2 runs, or with a years list
\* whose length differs from the number of runs, surfaces an error and does
\* not partially run: it writes no results (cleaning reports, zones, drift,
\* matches) to the store and never ends in status 'complete'.
C12_StructuralErrorsRejected ==
    (Len(rawRuns) < 2 \/ Len(years) # Len(rawRuns)) =>
       /\ NoResultsStored
       /\ store.status # "complete"
       /\ pc # "complete"

\* the positions from which runPipeline has a next step to take
PipelineRunning ==
    {"start", "normalizing", "cleaned", "aligning", "aligned", "analyzing"}

\* C13: for K >= 2 runs, any of which may be empty, have no reference
\* points, or yield no candidate pairs, runPipeline raises no error and
\* reaches status 'complete': it never throws, it stops nowhere but at
\* 'complete', and its alignment loop is bounded by the number of runs;
\* matchAnomalies with an empty later run returns zero pairs.
C13_DegenerateRunsComplete ==
    Len(rawRuns) >= 2 =>
       /\ pc # "threw"
       /\ pc \in PipelineRunning \cup {"complete"}
       /\ pc = "complete" <=> store.status = "complete"
       /\ loopI <= Len(rawRuns) - 1
       /\ pc = "aligned" => loopI = Len(rawRuns) - 1
       /\ (pc \in {"analyzing", "complete"} /\ correctedRuns[2] = << >>)
             => (match12.pairs = << >> /\ match12.newAnomalies = << >>)

\* three runs completed: the reference run has rows but no reference
\* points, the next run is empty and the last one is not
C13_Witness ==
    /\ pc = "complete"
    /\ store.status = "complete"
    /\ Len(rawRuns) = 3
    /\ rawRuns[1] # << >> /\ refPoints[1] = << >>
    /\ rawRuns[2] = << >>
    /\ match12.pairs = << >>
    /\ rawRuns[3] # << >>
    /\ match23.pairs = << >>

\* C20: after runPipeline completes on K runs, the stored alignment zones
\* contain the zones of every processed pair of consecutive runs (0,1),
\* (1,2), ..., not only those of the last pair.
C20_StoredZonesCoverEveryPair ==
    pc = "complete" =>
       \A i \in 1..(Len(runs) - 1) :
          Range(createAlignmentZones(
                    matchReferencePoints(refPoints[i], refPoints[i + 1])))
             \subseteq Range(store.alignmentZones)

----------------------------------------------------------------------------
(* normalizer.ts: normalizeAnomalies, and the similarity of two anomalies  *)
(* that went through normalizeAnomalies and cleanData.                     *)

\* JavaScript's %: the remainder takes the sign of the dividend
JsMod(a, b) == IF a >= 0 THEN a % b ELSE -((-a) % b)

\* A clock_position cell: absent, "H:MM" (hours, minutes), a number (in
\* tenths: 45 is 4.5) or a text that parses to no number.
ClockCell(kind, hours, minutes, tenths) ==
    [kind |-> kind, hours |-> hours, minutes |-> minutes, tenths |-> tenths]

\* lines 76-101, in whole degrees (even minutes; numbers above 12 whole)
parseClockPosition(value) ==
    IF value.kind = "null" THEN 0
    ELSE IF value.kind = "clock"
         THEN ((value.hours % 12) * 30 + value.minutes \div 2) % 360
    ELSE IF value.kind = "number"
         THEN IF value.tenths <= 120
              THEN JsMod(JsMod(value.tenths, 120) * 3, 360)
              ELSE JsMod(value.tenths, 3600) \div 10
    ELSE 0

\* lines 119-154: the mapping, for some of its patterns and in its order;
\* 'stress corrosion cracking' contains the earlier pattern 'corrosion'
FeatureTypeMapping ==
    [p \in {"external corrosion", "metal loss", "corrosion", "dent",
            "stress corrosion cracking", "girth weld"} |->
        CASE p = "external corrosion" -> "external_metal_loss"
          [] p = "metal loss" -> "metal_loss"
          [] p = "corrosion" -> "metal_loss"
          [] p = "dent" -> "dent"
          [] p = "stress corrosion cracking" -> "metal_loss"
          [] p = "girth weld" -> "girth_weld"]

\* lines 116-163, for a text that is one of the patterns or contains none
normalizeFeatureType(raw) ==
    IF raw \in DOMAIN FeatureTypeMapping THEN FeatureTypeMapping[raw]
    ELSE "unknown"

\* lines 168-170
clamp(value, min, max) ==
    IF value > max THEN max ELSE IF value < min THEN min ELSE value

\* A numeric cell of an inspection file: absent, or a number.
NumberCell(given, value) == [given |-> given, value |-> value]

\* lines 66-70
safeNum(cell, fallback) == IF cell.given THEN cell.value ELSE fallback

\* lines 15-58: one row (idx counts from 1 here)
NormalizeRow(r, idx) ==
    [id |-> idx,
     distance |-> r.distance,
     odometer |-> r.distance,
     corrected_distance |-> Whole(r.distance),
     joint_number |-> 0,
     is_reference_point |->
        normalizeFeatureType(r.feature_type) \in {"girth_weld", "valve", "fitting"},
     canonical_type |-> normalizeFeatureType(r.feature_type),
     clock_degrees |-> parseClockPosition(r.clock_position),
     depth_percent |-> clamp(r.depth_percent, 0, 100),
     length |-> Abs(r.length),
     width |-> Abs(r.width),
     wall_thickness |-> safeNum(r.wall_thickness, 375),
     has_missing_data |-> r.clock_position.kind = "null",
     cleaning_flags |-> << >>]

\* lines 10-61: every row normalized, then sorted by distance
normalizeAnomalies(rawData) ==
    StableSortBy([k \in 1..Len(rawData) |-> NormalizeRow(rawData[k], k)],
                 RefDistance)

ClockCells ==
    {ClockCell("null", 0, 0, 0),
     ClockCell("clock", 11, 0, 0),
     ClockCell("clock", 12, 30, 0),
     ClockCell("number", 0, 0, 45),
     ClockCell("number", 0, 0, 3300),
     ClockCell("number", 0, 0, 3600),
     ClockCell("number", 0, 0, -110),
     ClockCell("text", 0, 0, 0)}

RawFeatureTypes == {"metal loss", "external corrosion", "pitting"}

\* An anomaly row of an inspection file, and the same feature as the next
\* inspection reports it.
RawRow(distance, clock, featureType, depth, wall) ==
    [distance |-> distance, clock_position |-> clock,
     feature_type |-> featureType, depth_percent |-> depth,
     length |-> 2, width |-> -1, wall_thickness |-> wall]

\* wall_thickness cells (thousandths of an inch): absent, zero, too thin,
\* usual, too thick
WallCells ==
    {NumberCell(FALSE, 0), NumberCell(TRUE, 0), NumberCell(TRUE, 30),
     NumberCell(TRUE, 375), NumberCell(TRUE, 3000)}

InitSim ==
    /\ pc = "raw"
    /\ \E c1 \in ClockCells, c2 \in ClockCells, t2 \in RawFeatureTypes :
          \E d2 \in {100000, 100030}, depth2 \in {-5, 30, 120}, wall2 \in WallCells :
             rawPair = << <<RawRow(100000, c1, "metal loss", 30, NumberCell(FALSE, 0))>>,
                          <<RawRow(d2, c2, t2, depth2, wall2)>> >>
    /\ breakdown = NullMatch
    /\ IdleCore /\ IdleAnalysis /\ IdleClean /\ IdleRepl /\ IdleStore

\* normalizeAnomalies on each file
SimNormalize ==
    /\ pc = "raw"
    /\ runs' = [r \in 1..Len(rawPair) |-> normalizeAnomalies(rawPair[r])]
    /\ pc' = "normalized"
    /\ UNCHANGED <<hungarianVars, alignVars, pipelineVars, matchVars>>
    /\ UNCHANGED <<analysisVars, cleanVars, simVars, replVars, storeVars>>

\* pipeline.ts lines 42-47: cleanData on each run
SimClean ==
    /\ pc = "normalized"
    /\ runs' = [r \in 1..Len(runs) |->
                   cleanData(runs[r], r - 1, 2010 + 5 * r, OtherRuns(runs, r)).cleaned]
    /\ pc' = "cleaned"
    /\ UNCHANGED <<hungarianVars, alignVars, pipelineVars, matchVars>>
    /\ UNCHANGED <<analysisVars, cleanVars, simVars, replVars, storeVars>>

\* part_005 line 34: calculateSimilarity(a1, a2)
SimCalculate ==
    /\ pc = "cleaned"
    /\ breakdown' = calculateSimilarity(runs[1][1], runs[2][1])
    /\ pc' = "scored"
    /\ UNCHANGED <<rawPair, coreVars, analysisVars, cleanVars, replVars, storeVars>>

NextSim == SimNormalize \/ SimClean \/ SimCalculate

SpecSim == InitSim /\ [][NextSim]_vars

\* C16: for any two non-reference anomalies produced by normalizeAnomalies
\* and cleanData, calculateSimilarity returns distance, dimensional, clock
\* and feature-type components each in [0, 1] and a total in [0, 1].
C16_SimilarityInUnitRange ==
    (pc = "scored" /\ ~runs[1][1].is_reference_point
                   /\ ~runs[2][1].is_reference_point) =>
       /\ breakdown.distance \in 0..Milli
       /\ breakdown.dimensional \in 0..Milli
       /\ breakdown.clock \in 0..Milli
       /\ breakdown.feature_type \in 0..Milli
       /\ breakdown.total \in 0..One

----------------------------------------------------------------------------
(* referenceMatching.ts: detectPipeReplacements.                           *)

\* lines 102 and 141: references closer than this are one group (feet)
CloseTogether == 200

\* lines 90-91 and 131-132: the references whose id is not among ids
UnmatchedRefs(refs, ids) ==
    LET NotMatched(r) == r.id \notin ids
        idx == SelectIndices(refs, NotMatched)
    IN [k \in 1..Len(idx) |-> refs[idx[k]]]

\* lines 108-113 and 145-150, without the description
Section(startRef, endRef, run) ==
    [start_distance |-> startRef.distance,
     end_distance |-> endRef.distance,
     run |-> run]

\* lines 107-114, 121-128: a group is reported only when it ends on another
\* reference than it starts on
WithGroup(acc, unmatched, start, end, run) ==
    IF start # 0 /\ start # end
    THEN Append(acc, Section(unmatched[start], unmatched[end], run))
    ELSE acc

RECURSIVE GroupsFrom(_, _, _, _, _, _)
\* lines 94-128 and 134-164: the loop from index i on; start and end are the
\* indices of consecutiveStart and consecutiveEnd, 0 for null
GroupsFrom(unmatched, i, start, end, run, acc) ==
    IF i > Len(unmatched) THEN WithGroup(acc, unmatched, start, end, run)
    ELSE IF start = 0 THEN GroupsFrom(unmatched, i + 1, i, i, run, acc)
    ELSE IF unmatched[i].distance - unmatched[end].distance < CloseTogether
         THEN GroupsFrom(unmatched, i + 1, start, i, run, acc)
    ELSE GroupsFrom(unmatched, i + 1, i, i, run,
                    WithGroup(acc, unmatched, start, end, run))

\* lines 82-167
detectPipeReplacements(run1Refs_, run2Refs_, matched_) ==
    GroupsFrom(UnmatchedRefs(run1Refs_, {matched_[k].run1.id : k \in DOMAIN matched_}),
               1, 0, 0, 1, << >>)
      \o GroupsFrom(UnmatchedRefs(run2Refs_, {matched_[k].run2.id : k \in DOMAIN matched_}),
                    1, 0, 0, 2, << >>)

----------------------------------------------------------------------------
(* Specification of a pipe replacement between two runs: a block of girth  *)
(* welds between two welds that stay is cut out, and new pipe with as many *)
(* welds is put in.                                                        *)

\* the most welds in the replaced block
MaxBlockWelds == 3

\* where the weld before the block, the block and the weld after it lie
\* in the earlier run (feet)
WeldBefore == 1000
BlockStart == 2000
WeldAfter == 4000

\* the spacing of the welds within the block, how far from the old welds the
\* new ones lie, by how much the new pipe is longer
BlockSpacings == {40, 150}
NewWeldOffsets == {10, 60, 600}
LengthChanges == {0, 30}

\* joint numbers: not recorded, the new welds numbered as the old ones were,
\* or the new welds given numbers of their own
JointNumberings == {"none", "same", "new"}

Weld(id, distance, jointNumber, runIndex) ==
    [id |-> id, distance |-> distance, joint_number |-> jointNumber,
     run_index |-> runIndex]

\* the references of the earlier run (shift 0, change 0) or the later run
WeldsOfRun(n, spacing, shift, change, runIndex, numbered, firstNew) ==
    [k \in 1..(n + 2) |->
        IF k = 1 THEN Weld(k, WeldBefore, IF numbered THEN 1 ELSE 0, runIndex)
        ELSE IF k = n + 2
             THEN Weld(k, WeldAfter + change, IF numbered THEN n + 2 ELSE 0, runIndex)
        ELSE Weld(k, BlockStart + shift + (k - 2) * spacing,
                  IF numbered THEN firstNew + k - 2 ELSE 0, runIndex)]

InitReplacement ==
    /\ pc = "surveyed"
    /\ \E n \in 2..MaxBlockWelds, spacing \in BlockSpacings :
          \E offset \in NewWeldOffsets, change \in LengthChanges :
             \E numbering \in JointNumberings :
                /\ run1Refs = WeldsOfRun(n, spacing, 0, 0, 0, numbering # "none", 2)
                /\ run2Refs = WeldsOfRun(n, spacing, offset, change, 1,
                                         numbering # "none",
                                         IF numbering = "new" THEN 12 ELSE 2)
    /\ anomalies = << >> /\ matched = << >> /\ zones = << >> /\ corrected = << >>
    /\ replacements = NullMatch
    /\ IdleHungarian /\ IdlePipeline /\ IdleMatch
    /\ IdleAnalysis /\ IdleClean /\ IdleSim /\ IdleStore

\* pipeline.ts line 65
ReplacementMatch ==
    /\ pc = "surveyed"
    /\ matched' = matchReferencePoints(run1Refs, run2Refs)
    /\ pc' = "refs_matched"
    /\ UNCHANGED <<run1Refs, run2Refs, anomalies, zones, corrected, replacements>>
    /\ UNCHANGED <<hungarianVars, runs, pipelineVars, matchVars>>
    /\ UNCHANGED <<analysisVars, cleanVars, simVars, storeVars>>

\* pipeline.ts line 68
ReplacementDetect ==
    /\ pc = "refs_matched"
    /\ replacements' = detectPipeReplacements(run1Refs, run2Refs, matched)
    /\ pc' = "detected"
    /\ UNCHANGED <<coreVars, analysisVars, cleanVars, simVars, storeVars>>

\* pipeline.ts line 74
ReplacementZones ==
    /\ pc = "detected"
    /\ zones' = createAlignmentZones(matched)
    /\ pc' = "zones_made"
    /\ UNCHANGED <<run1Refs, run2Refs, anomalies, matched, corrected, replacements>>
    /\ UNCHANGED <<hungarianVars, runs, pipelineVars, matchVars>>
    /\ UNCHANGED <<analysisVars, cleanVars, simVars, storeVars>>

NextReplacement == ReplacementMatch \/ ReplacementDetect \/ ReplacementZones

SpecReplacement == InitReplacement /\ [][NextReplacement]_vars

SectionsOfRun(run) == {k \in DOMAIN replacements : replacements[k].run = run}

\* the zones whose span of the earlier run holds the whole replaced block
ZonesSpanningBlock ==
    {k \in DOMAIN zones :
        /\ zones[k].start_ref.run1.distance <= run1Refs[2].distance
        /\ zones[k].end_ref.run1.distance >= run1Refs[Len(run1Refs) - 1].distance}

\* C18: when a block of consecutive girth welds of the earlier run has no
\* counterpart in the later run and the later run has as many new welds at
\* nearby distances, detectPipeReplacements on the output of
\* matchReferencePoints reports exactly one removed section (run 1) and one
\* added section (run 2), and the alignment zone spanning the replaced
\* section has is_pipe_replacement = true.
C18_ReplacementReported ==
    pc = "zones_made" =>
       /\ Cardinality(SectionsOfRun(1)) = 1
       /\ Cardinality(SectionsOfRun(2)) = 1
       /\ ZonesSpanningBlock # {}
       /\ \A k \in ZonesSpanningBlock : zones[k].is_pipe_replacement

----------------------------------------------------------------------------
(* C21, C26 *)

\* the indices of a run's rows that are no reference points
NonReferenceIndices(run) == {k \in 1..Len(run) : ~run[k].is_reference_point}

\* the pairs of m, as (run-1 index, run-2 index)
PairIndices(m) == {<<m.pairs[k].run1Idx, m.pairs[k].run2Idx>> : k \in 1..Len(m.pairs)}

\* the (run-1 index, run-2 index) the assignment gives that are candidates
\* of similarity total >= 0.40
AcceptablyAssigned(run1, run2, r1, r2, assign) ==
    {<<IndexOf(run1, r1[i]), IndexOf(run2, r2[assign[i]])>> :
        i \in {k \in 1..Len(assign) :
                  /\ assign[k] >= 1 /\ assign[k] <= Len(r2)
                  /\ IsCandidate(r1, r2, k, assign[k])
                  /\ calculateSimilarity(r1[k], r2[assign[k]]).total >= CONFIDENCE_LOW}}

\* each index of idx occurs exactly once in the sequences a and b together
ExactlyOnceIn(idx, a, b) ==
    /\ Range(a) \cup Range(b) = idx
    /\ Range(a) \cap Range(b) = {}
    /\ \A i \in 1..Len(a) : \A k \in 1..Len(a) : a[i] = a[k] => i = k
    /\ \A i \in 1..Len(b) : \A k \in 1..Len(b) : b[i] = b[k] => i = k

MatchPartitions(run1, run2, m) ==
    /\ PairIndices(m) =
          AcceptablyAssigned(run1, run2, NonReference(run1), NonReference(run2),
              hungarianAlgorithm(buildCostMatrix(NonReference(run1), NonReference(run2),
                  Candidates(NonReference(run1), NonReference(run2)))))
    /\ \A k \in 1..Len(m.pairs) :
          /\ ~FracLess(Whole(DISTANCE_FILTER),
                       FracAbsDiff(run1[m.pairs[k].run1Idx].corrected_distance,
                                   run2[m.pairs[k].run2Idx].corrected_distance))
          /\ m.pairs[k].similarity.total > CandidateFloor
          /\ m.pairs[k].similarity.total >= CONFIDENCE_LOW
          /\ m.pairs[k].similarity =
                calculateSimilarity(run1[m.pairs[k].run1Idx], run2[m.pairs[k].run2Idx])
    /\ ExactlyOnceIn(NonReferenceIndices(run1),
                     [k \in 1..Len(m.pairs) |-> m.pairs[k].run1Idx],
                     m.missingAnomalies)
    /\ ExactlyOnceIn(NonReferenceIndices(run2),
                     [k \in 1..Len(m.pairs) |-> m.pairs[k].run2Idx],
                     m.newAnomalies)

\* C21: matchAnomalies accepts an assigned pair iff it is a candidate
\* (corrected distances within 200 ft, similarity total > 0.20) of similarity
\* total >= 0.40, and its outputs partition the non-reference anomalies:
\* every non-reference run-1 index is in exactly one of pairs or missing,
\* every non-reference run-2 index in exactly one of pairs or new, and
\* reference points are in none of them.
C21_MatchAcceptsAndPartitions ==
    pc = "chained" =>
        /\ ~IsNull(match12) => MatchPartitions(runs[1], runs[2], match12)
        /\ ~IsNull(match23) => MatchPartitions(runs[2], runs[3], match23)

\* one pair accepted, and a candidate of a total below 0.40 whose members
\* are reported missing and new
C21_Witness ==
    /\ pc = "chained"
    /\ ~IsNull(match12)
    /\ Len(match12.pairs) >= 1
    /\ \E i \in Range(match12.missingAnomalies) :
          \E j \in Range(match12.newAnomalies) :
             /\ ~FracLess(Whole(DISTANCE_FILTER),
                          FracAbsDiff(runs[1][i].corrected_distance,
                                      runs[2][j].corrected_distance))
             /\ calculateSimilarity(runs[1][i], runs[2][j]).total > CandidateFloor
             /\ calculateSimilarity(runs[1][i], runs[2][j]).total < CONFIDENCE_LOW

\* a run-1 index reported missing and a run-2 index reported new that are
\* within 200 ft of each other with similarity total >= 0.40
LeftUnmatched(run1, run2, m) ==
    {<<i, j>> \in Range(m.missingAnomalies) \X Range(m.newAnomalies) :
        /\ ~FracLess(Whole(DISTANCE_FILTER),
                     FracAbsDiff(run1[i].corrected_distance, run2[j].corrected_distance))
        /\ calculateSimilarity(run1[i], run2[j]).total >= CONFIDENCE_LOW}

\* C26: after matchAnomalies no run-1 index reported missing and run-2
\* index reported new are within 200 ft of each other (corrected distance)
\* with similarity total >= 0.40: no acceptable pair is left with both of
\* its members unmatched.
C26_NoAcceptablePairLeft ==
    pc = "chained" =>
        /\ ~IsNull(match12) => LeftUnmatched(runs[1], runs[2], match12) = {}
        /\ ~IsNull(match23) => LeftUnmatched(runs[2], runs[3], match23) = {}

----------------------------------------------------------------------------
(* C22, C27 *)

\* lines 61-94: the branch applyDistanceCorrection takes for a raw distance
CorrectionBranch(raw, zones_, matchedRefs) ==
    IF \E k \in 1..Len(zones_) : InZone(zones_[k], raw) THEN "zone"
    ELSE IF raw < StableSortBy(matchedRefs, Run2Distance)[1].run2.distance
         THEN "before_first"
    ELSE IF raw > StableSortBy(matchedRefs, Run2Distance)[Len(matchedRefs)].run2.distance
         THEN "after_last"
    ELSE "fallback"

\* C22: in applyDistanceCorrection with at least one zone, every anomaly's
\* raw distance lies in some zone, before the first matched reference or
\* after the last matched reference of the later run; the final fallback
\* branch that leaves corrected_distance equal to the raw distance is never
\* taken.
C22_FallbackNeverTaken ==
    (pc = "corrected" /\ Len(zones) >= 1) =>
        \A k \in 1..Len(anomalies) :
            CorrectionBranch(anomalies[k].distance, zones, matched) # "fallback"

\* the references of either run that are in no matched pair
UnmatchedOfRun1 ==
    {r \in Range(run1Refs) : \A k \in 1..Len(matched) : matched[k].run1.id # r.id}

UnmatchedOfRun2 ==
    {r \in Range(run2Refs) : \A k \in 1..Len(matched) : matched[k].run2.id # r.id}

\* C27: after matchReferencePoints(A, B), no unmatched reference of A lies
\* within the 500 ft tolerance of an unmatched reference of B: the greedy
\* matching is maximal.
C27_ReferenceMatchingMaximal ==
    pc \in {"matched", "zoned", "corrected"} =>
        \A a \in UnmatchedOfRun1 : \A b \in UnmatchedOfRun2 :
            Abs(a.distance - b.distance) > DistanceTolerance

\* a pair was matched, and a reference of each run stays unmatched
C27_Witness ==
    /\ pc = "matched"
    /\ Len(matched) >= 1
    /\ UnmatchedOfRun1 # {}
    /\ UnmatchedOfRun2 # {}

----------------------------------------------------------------------------
(* C23, C28 *)

\* the names of the seven passes, in their order
SevenPasses ==
    <<"Duplicate Removal", "Unit Detection & Conversion", "Outlier Clamping",
      "Missing Value Interpolation", "Distance Monotonicity",
      "Cross-Run WT Consistency", "Zero Dimension Check">>

PassNames(report) == [k \in 1..Len(report.passes) |-> report.passes[k].name]

\* C23: the report returned by cleanData always holds exactly seven pass
\* reports in the fixed order (duplicate removal, unit conversion, outlier
\* clamping, interpolation, monotonicity, cross-run wall thickness, zero
\* dimensions); when no other runs are provided, the cross-run pass is still
\* in the report and documents that it was skipped.
C23_SevenPassesReported ==
    \A r \in 1..Len(store.cleaningReports) :
        /\ PassNames(store.cleaningReports[r]) = SevenPasses
        /\ Len(rawRuns) = 1 => store.cleaningReports[r].passes[6].skipped

----------------------------------------------------------------------------
(* C24, C25 *)

\* the cleaned row is within the bounds of the outlier pass (wall thickness
\* in thousandths of an inch)
WithinCleanBounds(a) ==
    /\ a.depth_percent >= 0 /\ a.depth_percent <= 100
    /\ a.length <= 100
    /\ a.width <= 100
    /\ a.wall_thickness >= 50 /\ a.wall_thickness <= 2500

\* C24: after cleanData every anomaly has depth_percent in [0, 100],
\* length <= 100, width <= 100 and wall_thickness in [0.05, 2.5]: a wall
\* thickness below 0.05 has been replaced by 0.188, one above 2.5 by 2.0.
C24_CleanedWithinBounds ==
    pc \in {"cleaned", "scored"} =>
        \A r \in 1..Len(runs) : \A k \in 1..Len(runs[r]) :
            WithinCleanBounds(runs[r][k])

\* C25: for every clock_position input (an "H:MM" string, decimal hours, a
\* degree value, or missing), normalizeAnomalies produces clock_degrees in
\* the half-open range [0, 360).
C25_ClockDegreesInRange ==
    pc \in {"normalized", "cleaned", "scored"} =>
        \A r \in 1..Len(runs) : \A k \in 1..Len(runs[r]) :
            runs[r][k].clock_degrees >= 0 /\ runs[r][k].clock_degrees < 360

\* every row of every run given to runPipeline reports the same wall
\* thickness
SameWallThicknessEverywhere ==
    \A r \in 1..Len(rawRuns) : \A k \in 1..Len(rawRuns[r]) :
        \A q \in 1..Len(rawRuns) : \A j \in 1..Len(rawRuns[q]) :
            rawRuns[r][k].wall_thickness = rawRuns[q][j].wall_thickness

\* C28: if all runs report the same wall thickness value for every anomaly
\* (in the same unit), then after runPipeline's cleaning step no anomaly of
\* any run carries a wt_cross_run_deviation flag.
C28_NoDeviationForEqualWalls ==
    (pc \notin {"start", "normalizing"} /\ SameWallThicknessEverywhere) =>
        \A r \in 1..Len(runs) : \A k \in 1..Len(runs[r]) :
            "wt_cross_run_deviation" \notin Range(runs[r][k].cleaning_flags)

----------------------------------------------------------------------------
(* C29 *)

AscendingByDistance(data) ==
    \A k \in 1..(Len(data) - 1) : data[k].distance <= data[k + 1].distance

DistanceFlags ==
    {"distance_interpolated", "distance_backward_jump", "distance_major_backward_jump"}

\* the rows are in rising order of distance and none has a distance flag
OrderKept(data) ==
    /\ AscendingByDistance(data)
    /\ \A k \in 1..Len(data) : Range(data[k].cleaning_flags) \cap DistanceFlags = {}

\* C29: if the input to cleanData is sorted ascending by distance (as
\* normalizeAnomalies produces it), the cleaned output is still sorted
\* ascending by distance, and no anomaly receives a distance_interpolated or
\* distance backward-jump flag.
C29_CleaningKeepsOrder ==
    /\ (pc \in {"cleaned_once", "cleaned_twice"} /\ AscendingByDistance(dirtyRun))
          => OrderKept(cleanedOnce.cleaned)
    /\ (pc = "cleaned_twice" /\ AscendingByDistance(cleanedOnce.cleaned))
          => OrderKept(cleanedTwice.cleaned)

\* a run whose first row has no distance and whose next two rows share
\* theirs, converted from metres to feet
C29_Witness ==
    /\ pc = "cleaned_once"
    /\ Len(dirtyRun) = 3
    /\ AscendingByDistance(dirtyRun)
    /\ dirtyRun[1].distance = 0
    /\ dirtyRun[2].distance > 0
    /\ dirtyRun[2].distance = dirtyRun[3].distance
    /\ Len(cleanedOnce.cleaned) = 3
    /\ "distance_converted_m_to_ft" \in Range(cleanedOnce.cleaned[3].cleaning_flags)
----------------------------------------------------------------------------
(* C30 *)

\* what this invocation computed is what the store holds
ResultsStored ==
    /\ store.cleaningReports = [i \in 1..Len(rawRuns) |-> CleanRun(rawRuns, i).report]
    /\ store.odometerDrift = AllDrift(runs, refPoints)
    /\ store.alignedAnomalies = Flatten(correctedRuns)
    /\ store.matches = allMatches

\* C30: during one runPipeline invocation the progress values written to the
\* store never decrease, and processing.status becomes 'complete' only after
\* that invocation has stored its cleaning reports, odometer drift, aligned
\* anomalies and matches.
C30_ProgressRisesToComplete ==
    /\ [][/\ store'.progress >= store.progress
          /\ store'.status = "complete" => pc' = "complete"]_vars
    /\ [](store.status = "complete" => store.progress = 100 /\ ResultsStored)

\* an invocation over two runs or more that has ended with matches stored
C30_Witness ==
    /\ pc = "complete"
    /\ store.status = "complete"
    /\ store.progress = 100
    /\ Len(rawRuns) >= 2
    /\ store.matches # << >>
    /\ store.cleaningReports # << >>
    /\ store.odometerDrift # << >>
    /\ store.alignedAnomalies # << >>

====
